---- MODULE Spec2Model ----
(***************************************************************************)
(* The multi-strategy customer data extraction of the KFZ API service      *)
(* (src/server-startup-fix.js): the field validators, the Advanced,        *)
(* Natural and Structured-Tag strategies and the orchestrator              *)
(* extractCustomerDataIntelligent.                                         *)
(*                                                                         *)
(* A transcript is a sequence of tokens.  A token is one character (a      *)
(* digit, a blank, a punctuation mark) or one whole word; the letters of   *)
(* a word are matched together.  The words that transcripts are built from *)
(* (Phrases) are chosen so that no keyword of any rule occurs inside       *)
(* another word, which makes matching word by word the same as matching    *)
(* letter by letter.  The regular expressions of the source are written    *)
(* out rule by rule and run by a backtracking matcher with JavaScript's    *)
(* leftmost, ordered-alternative, greedy/lazy semantics.                   *)
(***************************************************************************)
EXTENDS Integers, Sequences, FiniteSets, TLC

VARIABLES
    transcript,     \* the argument of the function that was called
    pc,             \* position in the function that was called
    advancedData,   \* what extractCustomerDataAdvanced returned (line 576)
    naturalData,    \* const naturalData (line 581)
    legacyData,     \* const legacyData (line 594)
    backupData,     \* const backupData (line 606)
    extractedData,  \* let extractedData, the working result (line 576)
    preMerge,       \* the working result as the merge pass found it
    calls,          \* the strategies invoked so far, in order
    returned,       \* what is handed back to the caller
    kfz_customers,      \* the rows of the table kfz_customers
    tenant_projects,    \* the rows of the table tenant_projects
    TENANT_PROJECT_ID,  \* let TENANT_PROJECT_ID of database-init.js
    task                \* the asynchronous calls under way: position and locals

\* The state of one call of the extraction functions
extraction == <<transcript, pc, advancedData, naturalData, legacyData, backupData,
                extractedData, preMerge, calls, returned>>

\* The tables, the cached id and the asynchronous calls that use them
store == <<kfz_customers, tenant_projects, TENANT_PROJECT_ID, task>>

vars == <<extraction, store>>

-----------------------------------------------------------------------------
(* JavaScript values *)

\* null and undefined, as values of a string-typed field.  Strings are token
\* sequences, so the two markers are sequences that no string can equal.
Null == <<"<null>">>
Undefined == <<"<undefined>">>

\* An object reference that is null (a strategy's "no result").
NoResult == [k \in {} |-> Null]
IsNoResult(d) == DOMAIN d = {}

\* No table is touched and no asynchronous call is under way: the extraction
\* functions are synchronous and do no I/O
StoreUnused ==
    /\ kfz_customers = {}
    /\ tenant_projects = {}
    /\ TENANT_PROJECT_ID = Null
    /\ task = <<>>

\* obj[key] of a JavaScript object: undefined for an absent key.
Get(obj, key) == IF key \in DOMAIN obj THEN obj[key] ELSE Undefined

\* !v for a string-or-null value: null, undefined and "" are falsy.
Falsy(v) == v = Null \/ v = Undefined \/ v = <<>>

-----------------------------------------------------------------------------
(* Tokens *)

Digit == {"0", "1", "2", "3", "4", "5", "6", "7", "8", "9"}
Blank == {" ", "\n"}

\* String.prototype.toLowerCase, token by token, for the words transcripts use.
Lower(t) ==
    CASE t = "Ich" -> "ich"
      [] t = "Anna" -> "anna"
      [] t = "Schmidt" -> "schmidt"
      [] t = "Herr" -> "herr"
      [] t = "Nicht" -> "nicht"
      [] t = "Telefon" -> "telefon"
      [] t = "Feld" -> "feld"
      [] t = "Termin" -> "termin"
      [] t = "Angebot" -> "angebot"
      [] t = "DATENERFASSUNG" -> "datenerfassung"
      [] t = "Name" -> "name"
      [] t = "Adresse" -> "adresse"
      [] t = "Typ" -> "typ"
      [] t = "Peter" -> "peter"
      [] t = "Lustig" -> "lustig"
      [] t = "APPOINTMENT" -> "appointment"
      [] t = "QUOTE" -> "quote"
      [] t = "Hallo" -> "hallo"
      [] t = "Max" -> "max"
      [] t = "Mustermann" -> "mustermann"
      [] t = "Ja" -> "ja"
      [] t = "Weg" -> "weg"
      [] OTHER -> t

\* The words of the transcripts, lower-cased: every one is made of the letters
\* a-z only, so [a-z], [a-zäöüß] and the letters of \w agree on them.
Word == {"ich", "bin", "anna", "schmidt", "herr", "nicht", "erfasst",
         "telefon", "wohne", "feld", "weg", "termin", "morgen", "angebot",
         "datenerfassung", "name", "adresse", "typ", "peter", "lustig",
         "appointment", "quote", "irgendwo", "foo", "hallo", "max", "mustermann",
         "ja", "x", "kraftfahrzeughaftpflichtversicherung"}

\* Number of characters of a token sequence (String.prototype.length).
RECURSIVE Length(_)
Length(s) ==
    IF Len(s) = 0 THEN 0
    ELSE IF Len(s) = 1 THEN Len(s[1])
    ELSE LET half == Len(s) \div 2
         IN Length(SubSeq(s, 1, half)) + Length(SubSeq(s, half + 1, Len(s)))

LowerCase(s) == [i \in 1..Len(s) |-> Lower(s[i])]

\* String.prototype.trim
RECURSIVE TrimStart(_)
TrimStart(s) == IF s # <<>> /\ Head(s) \in Blank THEN TrimStart(Tail(s)) ELSE s
RECURSIVE TrimEnd(_)
TrimEnd(s) ==
    IF s # <<>> /\ s[Len(s)] \in Blank THEN TrimEnd(SubSeq(s, 1, Len(s) - 1)) ELSE s
Trim(s) == TrimEnd(TrimStart(s))

\* s.startsWith(p), for p made of one-character tokens
StartsWith(s, p) == Len(s) >= Len(p) /\ SubSeq(s, 1, Len(p)) = p

\* s.includes(k), for a keyword k given as tokens
Includes(s, k) == \E i \in 1..(Len(s) - Len(k) + 1) : SubSeq(s, i, i + Len(k) - 1) = k

-----------------------------------------------------------------------------
(* Regular expressions: the patterns of the source, and RegExp matching *)

Tok(S) == [op |-> "tok", s |-> S]            \* one token of the class S
Lit(w) == [op |-> "tok", s |-> {w}]          \* the literal w (flag i)
Cat(rs) == [op |-> "cat", rs |-> rs]         \* r1 r2 ...
Alt(rs) == [op |-> "alt", rs |-> rs]         \* r1 | r2 | ...
\* r{min,max}, greedy or lazy; max = -1 is "no upper limit"
Rep(r, min, max, greedy) ==
    [op |-> "rep", r |-> r, min |-> min, max |-> max, greedy |-> greedy]
Grp(n, r) == [op |-> "grp", n |-> n, r |-> r]     \* capturing group n
Eos == [op |-> "eos"]                              \* $ (no flag m)

Star(r) == Rep(r, 0, -1, TRUE)
Plus(r) == Rep(r, 1, -1, TRUE)
Opt(r) == Rep(r, 0, 1, TRUE)
\* a keyword written with blanks, such as "ich bin"
Words(ws) == Cat([i \in 1..Len(ws) |-> Lit(ws[i])])

NoCaps == [n \in 0..2 |-> <<0, 0>>]
Fail == [ok |-> FALSE, pos |-> 0, caps |-> NoCaps]

\* First position at or after j whose token is not of the class S
RECURSIVE RunEnd(_, _, _)
RunEnd(S, s, j) == IF j <= Len(s) /\ Lower(s[j]) \in S THEN RunEnd(S, s, j + 1) ELSE j

\* Backtracking match of the patterns on the stack st, in sequence, against s
\* from position i: the first way that succeeds, in the order RegExp tries them.
\* A repeated character class is matched run by run: the greedy form tries the
\* longest count first, the lazy form the shortest.
RECURSIVE Match(_, _, _, _)
RECURSIVE MatchAlt(_, _, _, _, _)
RECURSIVE MatchRun(_, _, _, _, _, _, _)
MatchAlt(alts, st, s, i, caps) ==
    IF alts = <<>> THEN Fail
    ELSE LET OrNext(first) ==
                 IF first.ok THEN first ELSE MatchAlt(Tail(alts), st, s, i, caps)
         IN OrNext(Match(<<Head(alts)>> \o st, s, i, caps))
\* the rest st after n tokens of the run, n going from `from` to `to` by `step`
MatchRun(st, s, i, caps, from, to, step) ==
    LET OrNext(this) ==
            IF this.ok \/ from = to THEN this
            ELSE MatchRun(st, s, i, caps, from + step, to, step)
    IN OrNext(Match(st, s, i + from, caps))
Match(st, s, i, caps) ==
    IF st = <<>> THEN [ok |-> TRUE, pos |-> i, caps |-> caps]
    ELSE LET r == Head(st)
             rest == Tail(st)
         IN CASE r.op = "tok" ->
                   IF i <= Len(s) /\ Lower(s[i]) \in r.s
                   THEN Match(rest, s, i + 1, caps) ELSE Fail
              [] r.op = "cat" -> Match(r.rs \o rest, s, i, caps)
              [] r.op = "alt" -> MatchAlt(r.rs, rest, s, i, caps)
              [] r.op = "rep" /\ r.r.op = "tok" ->
                   LET Upto(most) ==
                           IF most < r.min THEN Fail
                           ELSE IF r.greedy
                           THEN MatchRun(rest, s, i, caps, most, r.min, -1)
                           ELSE MatchRun(rest, s, i, caps, r.min, most, 1)
                       Limit(run) == IF r.max >= 0 /\ r.max < run THEN r.max ELSE run
                   IN Upto(Limit(RunEnd(r.r.s, s, i) - i))
              [] r.op = "rep" /\ r.r.op # "tok" ->
                   LET again == [r EXCEPT !.min = IF @ > 0 THEN @ - 1 ELSE 0,
                                          !.max = IF @ > 0 THEN @ - 1 ELSE @]
                       Prefer(more, stop) ==
                           IF r.greedy THEN (IF more.ok THEN more ELSE stop)
                           ELSE (IF stop.ok THEN stop ELSE more)
                   IN Prefer(IF r.max # 0
                             THEN Match(<<r.r, again>> \o rest, s, i, caps)
                             ELSE Fail,
                             IF r.min = 0 THEN Match(rest, s, i, caps) ELSE Fail)
              [] r.op = "grp" ->
                   Match(<<[op |-> "open", n |-> r.n], r.r,
                           [op |-> "close", n |-> r.n]>> \o rest, s, i, caps)
              [] r.op = "open" ->
                   Match(rest, s, i, [caps EXCEPT ![r.n] = <<i, i>>])
              [] r.op = "close" ->
                   Match(rest, s, i, [caps EXCEPT ![r.n] = <<@[1], i>>])
              [] r.op = "eos" ->
                   IF i = Len(s) + 1 THEN Match(rest, s, i, caps) ELSE Fail

\* The leftmost match of re in s at or after position i (RegExp.prototype.exec).
Exec(re, s, i) ==
    LET At1st(starts) ==
            IF starts = {} THEN Fail
            ELSE Match(<<Grp(0, re)>>, s, CHOOSE j \in starts : \A k \in starts : j <= k,
                       NoCaps)
    IN At1st({j \in i..(Len(s) + 1) : Match(<<Grp(0, re)>>, s, j, NoCaps).ok})

\* The text of group n of a successful match m
Group(m, s, n) == SubSeq(s, m.caps[n][1], m.caps[n][2] - 1)

\* s.match(re) for a pattern without flag g: null, or the array
\* [match, group 1, group 2], here with "none" for null.
MatchOnce(re, s) ==
    LET Array(m) ==
            IF m.ok THEN <<Group(m, s, 0), Group(m, s, 1), Group(m, s, 2)>> ELSE <<>>
    IN Array(Exec(re, s, 1))

\* s.match(re) for a pattern with flag g: null, or the array of the texts of
\* all successive matches; the groups are not part of it.
RECURSIVE MatchAll(_, _, _)
MatchAll(re, s, i) ==
    LET Array(m) ==
            IF ~m.ok THEN <<>>
            ELSE <<Group(m, s, 0)>>
                 \o MatchAll(re, s, IF m.pos > m.caps[0][1] THEN m.pos ELSE m.pos + 1)
    IN Array(Exec(re, s, i))

\* match[k] of the array a returned by match (k counted from 0)
At(a, k) == IF k + 1 <= Len(a) THEN a[k + 1] ELSE Undefined

-----------------------------------------------------------------------------
(* Character classes of the patterns *)

Letter == Word                              \* [a-zäöüß] and [a-z], flag i
LetterOrBlank == Word \cup Blank            \* [a-zäöüß\s]
WordChar == Word \cup Digit \cup {"_"}      \* \w
PhoneChar == Digit \cup Blank \cup {"-", "/"}   \* [0-9\s\-\/] and [\d\s\-\/]
Punct == {",", ".", ":", "-", "/", "+", "=", "[", "]", "_"}
\* . : every character but a line terminator
AnyChar == Word \cup Digit \cup {" "} \cup Punct
\* [^\]]
NotBracket == (AnyChar \cup {"\n"}) \ {"]"}

\* (?:straße|str\.?|weg|platz|allee|ring|damm|gasse)
StreetType ==
    Alt(<<Lit("straße"), Cat(<<Lit("str"), Opt(Lit("."))>>), Lit("weg"), Lit("platz"),
          Lit("allee"), Lit("ring"), Lit("damm"), Lit("gasse")>>)

\* (?:\+49|0)
PhoneStart == Alt(<<Cat(<<Lit("+"), Lit("4"), Lit("9")>>), Lit("0")>>)

-----------------------------------------------------------------------------
(* Validation helper functions *)

\* The stoplist of isValidName, each entry as tokens.
invalidNames ==
    {<<"heute">>, <<"morgen">>, <<"termin">>, <<"unfall">>, <<"auto">>, <<"fahrzeug">>,
     <<"schaden">>, <<"herr">>, <<"frau">>, <<"hallo">>, <<"guten", " ", "tag">>,
     <<"ja">>, <<"nein">>, <<"okay">>, <<"gut">>, <<"telefon">>, <<"nummer">>,
     <<"adresse">>, <<"straße">>, <<"haus">>}

\* isValidName comparing with the stoplist without toLowerCase()
isValidNameCaseSensitive(name) ==
    IF Falsy(name) \/ Length(name) < 2 THEN FALSE
    ELSE IF name \in invalidNames THEN FALSE
    ELSE IF \E i \in 1..Len(name) : name[i] \in Digit THEN FALSE
    ELSE IF Length(name) > 50 THEN FALSE
    ELSE IF ~(\E i \in 1..Len(name) : Lower(name[i]) \in Letter) THEN FALSE
    ELSE TRUE

isValidName(name) ==
    IF Falsy(name) \/ Length(name) < 2 THEN FALSE
    ELSE IF LowerCase(name) \in invalidNames THEN FALSE
    ELSE IF \E i \in 1..Len(name) : name[i] \in Digit THEN FALSE
    ELSE IF Length(name) > 50 THEN FALSE
    ELSE IF ~(\E i \in 1..Len(name) : Lower(name[i]) \in Letter) THEN FALSE
    ELSE TRUE

\* phone.replace(/[^\d+]/g, '')
IsDigitOrPlus(t) == t \in Digit \cup {"+"}
DigitsAndPlus(s) == SelectSeq(s, IsDigitOrPlus)

\* normalizePhoneNumber with the leading 0 put in front whatever the start
normalizePhoneNumberAlwaysPrefixed(phone) ==
    LET National(normalized) ==
            IF StartsWith(normalized, <<"+", "4", "9">>)
            THEN <<"0">> \o SubSeq(normalized, 4, Len(normalized))
            ELSE normalized
    IN <<"0">> \o National(DigitsAndPlus(phone))

\* normalizePhoneNumber of a string.
normalizePhoneNumber(phone) ==
    LET National(normalized) ==
            IF StartsWith(normalized, <<"+", "4", "9">>)
            THEN <<"0">> \o SubSeq(normalized, 4, Len(normalized))
            ELSE normalized
        Leading0(normalized) ==
            IF ~StartsWith(normalized, <<"0">>) THEN <<"0">> \o normalized
            ELSE normalized
    IN Leading0(National(DigitsAndPlus(phone)))

\* normalizePhoneNumber(v) throws a TypeError when v has no method replace.
normalizePhoneNumberThrows(v) == v = Undefined \/ v = Null

validAreaCodes ==
    {<<"0", "3", "0">>, <<"0", "4", "0">>, <<"0", "6", "9">>, <<"0", "8", "9">>,
     <<"0", "5", "2", "1">>, <<"0", "2", "1", "1">>, <<"0", "2", "2", "1">>,
     <<"0", "2", "3", "1">>}

isValidGermanPhone(phone) ==
    IF Falsy(phone) THEN FALSE
    ELSE LET Valid(normalized) ==
                 IF Length(normalized) < 10 \/ Length(normalized) > 12 THEN FALSE
                 ELSE IF ~StartsWith(normalized, <<"0">>) THEN FALSE
                 ELSE (\E code \in validAreaCodes : StartsWith(normalized, code))
                      \/ Match(<<Lit("0"), Tok(Digit \ {"0"}),
                                 Rep(Tok(Digit), 8, 10, TRUE), Eos>>,
                               normalized, 1, NoCaps).ok
         IN Valid(normalizePhoneNumber(phone))

\* s.replace(re, by) for a pattern with flag g
RECURSIVE ReplaceAll(_, _, _, _)
ReplaceAll(re, by, s, i) ==
    LET Replaced(m) ==
            IF ~m.ok THEN SubSeq(s, i, Len(s))
            ELSE SubSeq(s, i, m.caps[0][1] - 1) \o by
                 \o (IF m.pos > m.caps[0][1] THEN ReplaceAll(re, by, s, m.pos)
                     ELSE SubSeq(s, m.pos, m.pos) \o ReplaceAll(re, by, s, m.pos + 1))
    IN Replaced(Exec(re, s, i))

\* s.replace(re, '') for a pattern without flag g
RemoveFirst(re, s) ==
    LET Removed(m) ==
            IF ~m.ok THEN s
            ELSE SubSeq(s, 1, m.caps[0][1] - 1) \o SubSeq(s, m.pos, Len(s))
    IN Removed(Exec(re, s, 1))

\* s.replace(re, '') for a pattern that begins with ^
RemoveAtStart(re, s) ==
    LET Removed(m) == IF m.ok THEN SubSeq(s, m.pos, Len(s)) ELSE s
    IN Removed(Match(<<re>>, s, 1, NoCaps))

cleanAddress(address) ==
    RemoveFirst(Cat(<<Star(Tok(Blank)), Lit(","), Star(Tok(Blank)), Eos>>),
        RemoveAtStart(Cat(<<Star(Tok(Blank)), Lit(","), Star(Tok(Blank))>>),
            ReplaceAll(Cat(<<Lit(","), Star(Tok(Blank)), Lit(",")>>), <<",">>,
                ReplaceAll(Plus(Tok(Blank)), <<" ">>, Trim(address), 1), 1)))

isValidAddress(address) ==
    IF Falsy(address) \/ Length(address) < 5 THEN FALSE
    ELSE LET hasStreetType == Exec(StreetType, address, 1).ok
             hasNumber == \E i \in 1..Len(address) : address[i] \in Digit
         IN hasStreetType /\ hasNumber

-----------------------------------------------------------------------------
(* Numbers *)

\* confidence_score and the thresholds it is compared with are held as whole
\* numbers of 1/900: the rule weights are hundredths, and the Advanced score
\* is (sum of weights / 3) * (fields / 3), a multiple of 1/900.  The double
\* arithmetic of the source never comes closer than 0.01 to a threshold.
Hundredths(n) == 9 * n
Min(a, b) == IF a < b THEN a ELSE b

\* The empty object {}
Empty == [k \in {} |-> 0]

-----------------------------------------------------------------------------
(* Advanced data extraction: the rules *)

\* ([a-zäöüß\s]+?), the lazily captured name of the first three name rules
LazyName == Grp(1, Rep(Tok(LetterOrBlank), 1, -1, FALSE))

nameExtractionMethods ==
    << [pattern |->
          Cat(<<Alt(<<Words(<<"name", " ", "ist">>), Words(<<"ich", " ", "heiße">>),
                      Words(<<"ich", " ", "bin">>),
                      Words(<<"mein", " ", "name", " ", "ist">>)>>),
                Plus(Tok(Blank)), LazyName,
                Alt(<<Lit("."), Lit(","), Eos,
                      Cat(<<Plus(Tok(Blank)),
                            Alt(<<Lit("und"), Lit("meine"), Lit("telefon"),
                                  Lit("mein")>>)>>)>>)>>),
        confidence |-> 90, description |-> "Direct name introduction"],
       [pattern |->
          Cat(<<Alt(<<Lit("hallo"), Words(<<"guten", " ", "tag">>)>>), Opt(Lit(",")),
                Star(Tok(Blank)),
                Opt(Alt(<<Words(<<"ich", " ", "bin">>),
                          Words(<<"mein", " ", "name", " ", "ist">>)>>)),
                Star(Tok(Blank)), LazyName,
                Alt(<<Lit("."), Lit(","), Eos,
                      Cat(<<Plus(Tok(Blank)),
                            Alt(<<Lit("und"), Lit("meine"), Lit("telefon")>>)>>)>>)>>),
        confidence |-> 80, description |-> "Greeting with name"],
       [pattern |->
          Cat(<<Alt(<<Words(<<"hier", " ", "ist">>), Words(<<"hier", " ", "spricht">>)>>),
                Plus(Tok(Blank)), LazyName, Alt(<<Lit("."), Lit(","), Eos>>)>>),
        confidence |-> 85, description |-> "Phone introduction"],
       [pattern |->
          Cat(<<Lit("von"), Plus(Tok(Blank)),
                Grp(1, Cat(<<Plus(Tok(Letter)), Plus(Tok(Blank)), Plus(Tok(Letter))>>)),
                Alt(<<Tok(Blank), Eos>>)>>),
        confidence |-> 70, description |-> "From name pattern"] >>

\* ((?:\+49|0)[0-9\s\-\/]{8,})
PhoneNumber == Grp(1, Cat(<<PhoneStart, Rep(Tok(PhoneChar), 8, -1, TRUE)>>))

\* global: the pattern carries flag g
phoneExtractionMethods ==
    << [pattern |->
          Cat(<<Alt(<<Lit("telefon"), Lit("nummer"), Lit("telefonnummer"),
                      Lit("erreichbar"), Lit("anrufen"), Lit("melden")>>),
                Star(Tok(Blank)),
                Star(Alt(<<Lit("ist"), Lit("unter"), Lit(":"), Tok(Blank)>>)),
                Star(Tok(Blank)), PhoneNumber>>),
        global |-> FALSE,
        confidence |-> 95, description |-> "Direct phone mention"],
       [pattern |->
          Cat(<<Alt(<<Lit("null"), Lit("0")>>), Star(Tok(Blank)),
                Grp(1, Rep(Tok(Digit), 3, 4, TRUE)), Star(Tok(Blank)),
                Grp(2, Rep(Tok(Digit), 6, 8, TRUE))>>),
        global |-> FALSE,
        confidence |-> 80, description |-> "Spoken digit format"],
       [pattern |-> PhoneNumber,
        global |-> TRUE,
        confidence |-> 70, description |-> "Phone number pattern"] >>

\* ([a-zäöüß\s]+(?:straße|...|gasse)[\s\d\w,-]+)
AddressAfterKeyword ==
    Grp(1, Cat(<<Plus(Tok(LetterOrBlank)), StreetType,
                 Plus(Tok(Blank \cup WordChar \cup {",", "-"}))>>))

addressExtractionMethods ==
    << [pattern |->
          Cat(<<Alt(<<Lit("adresse"), Lit("wohne"), Lit("wohnhaft"), Lit("zuhause"),
                      Words(<<"ich", " ", "bin">>), Words(<<"bei", " ", "mir">>),
                      Words(<<"zu", " ", "mir">>)>>),
                Rep(Tok(Blank \cup WordChar), 0, -1, FALSE),
                Opt(Alt(<<Lit("ist"), Lit("in"), Lit("an"), Lit("bei"), Lit(":")>>)),
                Star(Tok(Blank)), AddressAfterKeyword>>),
        confidence |-> 90, description |-> "Direct address mention"],
       [pattern |->
          Cat(<<Alt(<<Words(<<"zur", " ", "besichtigung">>), Words(<<"vor", " ", "ort">>),
                      Words(<<"kommen", " ", "sie">>), Words(<<"fahren", " ", "sie">>),
                      Words(<<"besuchen", " ", "sie">>)>>),
                Rep(Tok(Blank \cup WordChar), 0, -1, FALSE),
                Opt(Alt(<<Lit("zu"), Lit("nach"), Lit("in"), Lit("an")>>)),
                Star(Tok(Blank)), AddressAfterKeyword>>),
        confidence |-> 85, description |-> "Appointment location"],
       [pattern |->
          Grp(1, Cat(<<Plus(Tok(LetterOrBlank)), StreetType, Star(Tok(Blank)),
                       Plus(Tok(Digit)), Opt(Tok(Letter)),
                       Opt(Cat(<<Star(Tok(Blank \cup {","})),
                                 Rep(Tok(Digit), 5, 5, TRUE)>>)),
                       Star(Tok(Blank \cup {","})), Star(Tok(LetterOrBlank))>>)),
        confidence |-> 75, description |-> "Standard German address format"] >>

appointmentMethods ==
    << [pattern |->
          Cat(<<Alt(<<Lit("termin"), Lit("besichtigung"), Words(<<"vor", " ", "ort">>),
                      Lit("begutachtung")>>),
                Rep(Tok(Blank \cup WordChar), 0, -1, FALSE),
                Alt(<<Lit("für"), Lit("am"), Lit("um"), Lit("morgen"), Lit("heute"),
                      Words(<<"nächste", " ", "woche">>), Lit("montag"), Lit("dienstag"),
                      Lit("mittwoch"), Lit("donnerstag"), Lit("freitag"),
                      Lit("samstag")>>)>>),
        confidence |-> 90, description |-> "Direct appointment request"],
       [pattern |->
          Cat(<<Alt(<<Words(<<"kommen", " ", "sie">>), Words(<<"fahren", " ", "sie">>),
                      Words(<<"besuchen", " ", "sie">>),
                      Words(<<"schauen", " ", "sie">>)>>),
                Rep(Tok(Blank \cup WordChar), 0, -1, FALSE),
                Alt(<<Lit("vorbei"), Words(<<"zu", " ", "mir">>),
                      Words(<<"bei", " ", "mir">>)>>)>>),
        confidence |-> 80, description |-> "Visit request"] >>

typeIndicators ==
    [APPOINTMENT |->
        {<<"termin">>, <<"besichtigung">>, <<"kommen", " ", "sie">>, <<"vor", " ", "ort">>,
         <<"begutachtung">>, <<"schauen", " ", "sie">>, <<"fahren", " ", "sie">>,
         <<"besuchen", " ", "sie">>, <<"bei", " ", "mir">>, <<"zu", " ", "mir">>},
     CALLBACK |->
        {<<"rückruf">>, <<"anrufen">>, <<"melden", " ", "sie", " ", "sich">>,
         <<"nicht", " ", "parat">>, <<"später">>, <<"beratung">>,
         <<"sprechen", " ", "sie">>, <<"kontakt">>},
     QUOTE |->
        {<<"kostenvoranschlag">>, <<"angebot">>, <<"preis">>, <<"kosten">>,
         <<"was", " ", "kostet">>, <<"kalkulation">>, <<"schätzung">>}]

-----------------------------------------------------------------------------
(* Advanced data extraction *)

NotFound == [found |-> FALSE, threw |-> FALSE, value |-> Null, method |-> 0]

\* for (const method of nameExtractionMethods) { ... }, from rule k on
RECURSIVE NameLoop(_, _)
NameLoop(s, k) ==
    IF k > Len(nameExtractionMethods) THEN NotFound
    ELSE LET Take(name) ==
                 IF isValidName(name)
                 THEN [found |-> TRUE, threw |-> FALSE, value |-> name, method |-> k]
                 ELSE NameLoop(s, k + 1)
             Try(match) ==
                 IF match # <<>> THEN Take(Trim(At(match, 1))) ELSE NameLoop(s, k + 1)
         IN Try(MatchOnce(nameExtractionMethods[k].pattern, s))

\* for (const method of phoneExtractionMethods) { ... }, from rule k on.
\* With flag g, match[1] is the text of the second match, or undefined, and
\* normalizePhoneNumber(undefined) throws out of the loop.
RECURSIVE PhoneLoop(_, _)
PhoneLoop(s, k) ==
    IF k > Len(phoneExtractionMethods) THEN NotFound
    ELSE LET Take(phone) ==
                 IF isValidGermanPhone(phone)
                 THEN [found |-> TRUE, threw |-> FALSE, value |-> phone, method |-> k]
                 ELSE PhoneLoop(s, k + 1)
             Try(match) ==
                 IF match = <<>> THEN PhoneLoop(s, k + 1)
                 ELSE IF normalizePhoneNumberThrows(At(match, 1))
                 THEN [NotFound EXCEPT !.threw = TRUE]
                 ELSE Take(normalizePhoneNumber(At(match, 1)))
         IN Try(IF phoneExtractionMethods[k].global
                THEN MatchAll(phoneExtractionMethods[k].pattern, s, 1)
                ELSE MatchOnce(phoneExtractionMethods[k].pattern, s))

\* for (const method of addressExtractionMethods) { ... }, from rule k on
RECURSIVE AddressLoop(_, _)
AddressLoop(s, k) ==
    IF k > Len(addressExtractionMethods) THEN NotFound
    ELSE LET Take(address) ==
                 IF isValidAddress(address)
                 THEN [found |-> TRUE, threw |-> FALSE, value |-> address, method |-> k]
                 ELSE AddressLoop(s, k + 1)
             Try(match) ==
                 IF match # <<>> THEN Take(cleanAddress(At(match, 1)))
                 ELSE AddressLoop(s, k + 1)
         IN Try(MatchOnce(addressExtractionMethods[k].pattern, s))

\* for (const method of appointmentMethods) { ... }, from rule k on
RECURSIVE AppointmentLoop(_, _)
AppointmentLoop(s, k) ==
    IF k > Len(appointmentMethods) THEN NotFound
    ELSE LET Try(match) ==
                 IF match # <<>>
                 THEN [found |-> TRUE, threw |-> FALSE, value |-> At(match, 0),
                       method |-> k]
                 ELSE AppointmentLoop(s, k + 1)
         IN Try(MatchOnce(appointmentMethods[k].pattern, s))

\* extraction_details.<field>_method and <field>_confidence of a field that was set
FieldDetails(field, hit, methods) ==
    IF hit.found
    THEN (field \o "_method" :> methods[hit.method].description)
         @@ (field \o "_confidence" :> methods[hit.method].confidence)
    ELSE Empty

\* typeScores[type] after the keyword loop
KeywordScore(transcriptLower, type) ==
    Cardinality({keyword \in typeIndicators[type] : Includes(transcriptLower, keyword)})

\* The call type with the keys of typeScores searched from the last one
CallTypeLastKey(transcriptLower, address, appointment) ==
    LET Highest(typeScores) ==
            LET maxScore == CHOOSE m \in {typeScores[t] : t \in DOMAIN typeScores} :
                                \A t \in DOMAIN typeScores : typeScores[t] <= m
            IN IF maxScore > 0
               THEN (IF typeScores.QUOTE = maxScore THEN <<"QUOTE">>
                     ELSE IF typeScores.CALLBACK = maxScore THEN <<"CALLBACK">>
                     ELSE <<"APPOINTMENT">>)
               ELSE <<"CALLBACK">>
    IN Highest([APPOINTMENT |-> KeywordScore(transcriptLower, "APPOINTMENT")
                                + (IF ~Falsy(address) THEN 3 ELSE 0)
                                + (IF ~Falsy(appointment) THEN 2 ELSE 0),
                CALLBACK |-> KeywordScore(transcriptLower, "CALLBACK"),
                QUOTE |-> KeywordScore(transcriptLower, "QUOTE")])

\* The call type: CALLBACK unless some score is positive, then the first key of
\* typeScores, in the order APPOINTMENT, CALLBACK, QUOTE, that has the highest score.
CallType(transcriptLower, address, appointment) ==
    LET Highest(typeScores) ==
            LET maxScore == CHOOSE m \in {typeScores[t] : t \in DOMAIN typeScores} :
                                \A t \in DOMAIN typeScores : typeScores[t] <= m
            IN IF maxScore > 0
               THEN (IF typeScores.APPOINTMENT = maxScore THEN <<"APPOINTMENT">>
                     ELSE IF typeScores.CALLBACK = maxScore THEN <<"CALLBACK">>
                     ELSE <<"QUOTE">>)
               ELSE <<"CALLBACK">>
    IN Highest([APPOINTMENT |-> KeywordScore(transcriptLower, "APPOINTMENT")
                                + (IF ~Falsy(address) THEN 3 ELSE 0)
                                + (IF ~Falsy(appointment) THEN 2 ELSE 0),
                CALLBACK |-> KeywordScore(transcriptLower, "CALLBACK"),
                QUOTE |-> KeywordScore(transcriptLower, "QUOTE")])

\* The confidence without the share of the fields found
AdvancedConfidenceNoCount(totalConfidence, fieldCount) ==
    Min(Hundredths(100), totalConfidence * 3)

\* Math.min(1.0, (totalConfidence / 3) * (fieldCount / 3)), in 1/900
AdvancedConfidence(totalConfidence, fieldCount) ==
    Min(Hundredths(100), totalConfidence * fieldCount)

\* extractCustomerDataAdvanced(transcript) for a string: threw tells that the
\* call ended in an exception, data is the record returned or NoResult.
extractCustomerDataAdvanced(s) ==
    LET Confidence(name, phone, address) ==
            (IF name.found THEN nameExtractionMethods[name.method].confidence ELSE 0)
            + (IF phone.found THEN phoneExtractionMethods[phone.method].confidence ELSE 0)
            + (IF address.found
               THEN addressExtractionMethods[address.method].confidence ELSE 0)
        Fields(name, phone, address) ==
            Cardinality({f \in {"name", "phone", "address"} :
                            ~Falsy(CASE f = "name" -> name.value
                                     [] f = "phone" -> phone.value
                                     [] OTHER -> address.value)})
        Return(data) ==
            IF data.confidence_score > Hundredths(30) THEN data
            ELSE NoResult
        Extracted(name, phone, address, appointment) ==
            IF phone.threw THEN [threw |-> TRUE, data |-> NoResult]
            ELSE [threw |-> FALSE,
                  data |-> Return(
                      [name |-> name.value, phone |-> phone.value,
                       address |-> address.value, appointment |-> appointment.value,
                       type |-> CallType(LowerCase(s), address.value, appointment.value),
                       confidence_score |->
                           AdvancedConfidence(Confidence(name, phone, address),
                                              Fields(name, phone, address)),
                       extraction_details |->
                           FieldDetails("name", name, nameExtractionMethods)
                           @@ FieldDetails("phone", phone, phoneExtractionMethods)
                           @@ FieldDetails("address", address, addressExtractionMethods)
                           @@ FieldDetails("appointment", appointment,
                                           appointmentMethods)])]
    IN IF s = <<>> \/ Length(Trim(s)) = 0 THEN [threw |-> FALSE, data |-> NoResult]
       ELSE Extracted(NameLoop(s, 1), PhoneLoop(s, 1), AddressLoop(s, 1),
                      AppointmentLoop(s, 1))

-----------------------------------------------------------------------------
(* Natural language extraction (fallback) *)

namePatterns == <<nameExtractionMethods[1].pattern, nameExtractionMethods[2].pattern>>

\* ((?:\+49|0)[\s\-]?[\d\s\-\/]{8,})
NaturalPhoneNumber ==
    Grp(1, Cat(<<PhoneStart, Opt(Tok(Blank \cup {"-"})), Rep(Tok(PhoneChar), 8, -1, TRUE)>>))

phonePatterns ==
    << Cat(<<Alt(<<Lit("telefon"), Lit("nummer"), Lit("telefonnummer"),
                   Lit("erreichbar")>>),
             Star(Tok(Blank)), Opt(Alt(<<Lit("ist"), Lit("unter"), Lit(":")>>)),
             Star(Tok(Blank)), NaturalPhoneNumber>>),
       NaturalPhoneNumber >>

addressPatterns ==
    << Cat(<<Alt(<<Lit("adresse"), Lit("wohne"), Lit("wohnhaft")>>), Plus(Tok(Blank)),
             Opt(Alt(<<Lit("ist"), Lit("in"), Lit("an"), Lit("bei")>>)), Star(Tok(Blank)),
             Grp(1, Cat(<<Plus(Tok(LetterOrBlank)),
                          Alt(<<Lit("straße"), Cat(<<Lit("str"), Lit(".")>>), Lit("weg"),
                                Lit("platz"), Lit("allee")>>),
                          Star(Tok(Blank)), Plus(Tok(Digit)), Opt(Tok(Letter)),
                          Star(Tok(Blank \cup {","})), Star(Tok(Digit)),
                          Star(Tok(Blank)), Star(Tok(LetterOrBlank))>>))>>) >>

\* for (const pattern of namePatterns) { ... }, from pattern k on
RECURSIVE NaturalNameLoop(_, _)
NaturalNameLoop(s, k) ==
    IF k > Len(namePatterns) THEN Null
    ELSE LET Take(name) ==
                 IF Length(name) > 2 /\ ~(\E i \in 1..Len(name) : name[i] \in Digit)
                 THEN name ELSE NaturalNameLoop(s, k + 1)
             Try(match) ==
                 IF match # <<>> THEN Take(Trim(At(match, 1)))
                 ELSE NaturalNameLoop(s, k + 1)
         IN Try(MatchOnce(namePatterns[k], s))

\* match[1].replace(/[\s\-\/]/g, '')
IsNoSeparator(t) == t \notin Blank \cup {"-", "/"}
WithoutSeparators(s) == SelectSeq(s, IsNoSeparator)

\* for (const pattern of phonePatterns) { ... }, from pattern k on
RECURSIVE NaturalPhoneLoop(_, _)
NaturalPhoneLoop(s, k) ==
    IF k > Len(phonePatterns) THEN Null
    ELSE LET Take(phone) ==
                 IF Length(phone) >= 9 THEN phone ELSE NaturalPhoneLoop(s, k + 1)
             Try(match) ==
                 IF match # <<>> THEN Take(Trim(WithoutSeparators(At(match, 1))))
                 ELSE NaturalPhoneLoop(s, k + 1)
         IN Try(MatchOnce(phonePatterns[k], s))

\* for (const pattern of addressPatterns) { ... }, from pattern k on
RECURSIVE NaturalAddressLoop(_, _)
NaturalAddressLoop(s, k) ==
    IF k > Len(addressPatterns) THEN Null
    ELSE LET Try(match) ==
                 IF match # <<>> THEN Trim(At(match, 1)) ELSE NaturalAddressLoop(s, k + 1)
         IN Try(MatchOnce(addressPatterns[k], s))

\* The quality check asking for a name only
hasValidDataNameOnly(data) == ~Falsy(data.name)

\* const hasValidData = extractedData.name && extractedData.phone
hasValidData(data) == ~Falsy(data.name) /\ ~Falsy(data.phone)

\* extractCustomerDataNatural(transcript) for a string
extractCustomerDataNatural(s) ==
    LET Type(transcriptLower) ==
            IF Includes(transcriptLower, <<"termin">>)
               \/ Includes(transcriptLower, <<"besichtigung">>)
            THEN <<"APPOINTMENT">> ELSE <<"CALLBACK">>
        Extracted(name, phone) ==
            IF hasValidData([name |-> name, phone |-> phone])
            THEN [name |-> name, phone |-> phone, address |-> NaturalAddressLoop(s, 1),
                  appointment |-> Null, type |-> Type(LowerCase(s))]
            ELSE NoResult
    IN IF s = <<>> \/ Length(Trim(s)) = 0 THEN NoResult
       ELSE Extracted(NaturalNameLoop(s, 1), NaturalPhoneLoop(s, 1))

-----------------------------------------------------------------------------
(* Structured format extraction (legacy support) *)

\* Key=\[([^\]]+)\]
Bracketed(key) ==
    Cat(<<Lit(key), Lit("="), Lit("["), Grp(1, Plus(Tok(NotBracket))), Lit("]")>>)

\* const patterns
patterns ==
    [name |-> Bracketed("name"), phone |-> Bracketed("telefon"),
     address |-> Bracketed("adresse"), appointment |-> Bracketed("termin"),
     type |-> Cat(<<Lit("typ"), Lit("="), Grp(1, Plus(Tok(Letter)))>>)]

\* extractCustomerData(transcript) for a string
extractCustomerData(s) ==
    LET Value(match) == Trim(At(match, 1))
        Data(dataString) ==
            [key \in {k \in DOMAIN patterns : MatchOnce(patterns[k], dataString) # <<>>}
                |-> Value(MatchOnce(patterns[key], dataString))]
        Parsed(dataMatch) ==
            IF dataMatch = <<>> THEN NoResult ELSE Data(At(dataMatch, 1))
    IN Parsed(MatchOnce(Cat(<<Lit("datenerfassung"), Lit(":"), Star(Tok(Blank)),
                              Grp(1, Plus(Tok(AnyChar)))>>), s))

-----------------------------------------------------------------------------
(* The transcripts *)

\* Longest transcript, in phrases
MaxPhrases == 2

\* What a caller says, phrase by phrase.  No keyword of any rule is part of a
\* longer word here, no digit touches a letter, and Name is only met behind
\* the colon of the DATENERFASSUNG marker.
Phrases ==
    << \* Ich bin Anna Schmidt, Telefon +49 521 1234567.
       <<"Ich", " ", "bin", " ", "Anna", " ", "Schmidt", ",", " ", "Telefon", " ",
         "+", "4", "9", " ", "5", "2", "1", " ", "1", "2", "3", "4", "5", "6", "7",
         ".", " ">>,
       \* Ich wohne Feldweg 12.
       <<"Ich", " ", "wohne", " ", "Feld", "weg", " ", "1", "2", ".", " ">>,
       \* 0521 1234567.
       <<"0", "5", "2", "1", " ", "1", "2", "3", "4", "5", "6", "7", ".", " ">>,
       \* Termin morgen.
       <<"Termin", " ", "morgen", ".", " ">>,
       \* Angebot.
       <<"Angebot", ".", " ">>,
       \* DATENERFASSUNG: Name=[Peter Lustig] Telefon=[05211234567] Typ=APPOINTMENT
       <<"DATENERFASSUNG", ":", " ", "Name", "=", "[", "Peter", " ", "Lustig", "]", " ",
         "Telefon", "=", "[", "0", "5", "2", "1", "1", "2", "3", "4", "5", "6", "7",
         "]", " ", "Typ", "=", "APPOINTMENT", "\n">>,
       \* DATENERFASSUNG: Name=[Peter Lustig] Adresse=[irgendwo] Typ=QUOTE
       <<"DATENERFASSUNG", ":", " ", "Name", "=", "[", "Peter", " ", "Lustig", "]", " ",
         "Adresse", "=", "[", "irgendwo", "]", " ", "Typ", "=", "QUOTE", "\n">>,
       \* DATENERFASSUNG: Adresse=[irgendwo]
       <<"DATENERFASSUNG", ":", " ", "Adresse", "=", "[", "irgendwo", "]", "\n">>,
       \* Ich bin Herr, Telefon 0521 1234567.
       <<"Ich", " ", "bin", " ", "Herr", ",", " ", "Telefon", " ",
         "0", "5", "2", "1", " ", "1", "2", "3", "4", "5", "6", "7", ".", " ">>,
       \* Ich bin Nicht erfasst, Telefon 0521 1234567.
       <<"Ich", " ", "bin", " ", "Nicht", " ", "erfasst", ",", " ", "Telefon", " ",
         "0", "5", "2", "1", " ", "1", "2", "3", "4", "5", "6", "7", ".", " ">>,
       \* Termin.
       <<"Termin", ".", " ">> >>

\* The phrases ps, said one after the other
RECURSIVE Say(_)
Say(ps) == IF ps = <<>> THEN <<>> ELSE Phrases[Head(ps)] \o Say(Tail(ps))

\* The strings a webhook delivers: up to MaxPhrases phrases, or blanks only
Strings ==
    {Say(ps) : ps \in UNION {[1..n -> 1..Len(Phrases)] : n \in 0..MaxPhrases}}
    \cup {<<" ">>, <<" ", "\n">>}

\* The values extractCustomerDataIntelligent can be called with: typeof and,
\* for a string, its text.  A missing transcript arrives as undefined.
Arguments ==
    {[typeof |-> "string", text |-> s] : s \in Strings}
    \cup {[typeof |-> t, text |-> <<>>] : t \in {"undefined", "object", "number"}}

\* The guard without its trim(): a transcript of blanks passes
InvalidUntrimmed(arg) ==
    arg.typeof # "string" \/ arg.text = <<>>

\* !transcript || typeof transcript !== 'string' || transcript.trim().length === 0
Invalid(arg) ==
    arg.typeof # "string" \/ arg.text = <<>> \/ Length(Trim(arg.text)) = 0

-----------------------------------------------------------------------------
(* Main intelligent extraction function *)

\* The tagging of the structured branch, pasted into every branch
TaggedAsStructured(base, score, label) ==
    ("confidence_score" :> Hundredths(80))
    @@ ("extraction_details" :> [method |-> "structured_format"]) @@ base

\* { ...base, confidence_score: score, extraction_details: { method: label } }
Tagged(base, score, label) ==
    ("confidence_score" :> score) @@ ("extraction_details" :> [method |-> label]) @@ base

\* The placeholder 'Nicht erfasst'
Placeholder == <<"Nicht", " ", "erfasst">>

\* The merge without its condition: every key of the tag overwrites
MergedOverwriting(data, backup) ==
    [key \in DOMAIN data \cup DOMAIN backup |->
        IF key \in DOMAIN backup THEN backup[key] ELSE data[key]]

\* The merge in which the Typ of the tag always wins
MergedTypeFromTag(data, backup) ==
    [key \in DOMAIN data \cup DOMAIN backup |->
        IF key \in DOMAIN backup
           /\ (key = "type" \/ Falsy(Get(data, key)) \/ Get(data, key) = Placeholder)
        THEN backup[key] ELSE data[key]]

\* for (const [key, value] of Object.entries(backupData)) { ... }
Merged(data, backup) ==
    [key \in DOMAIN data \cup DOMAIN backup |->
        IF key \in DOMAIN backup
           /\ (Falsy(Get(data, key)) \/ Get(data, key) = Placeholder)
        THEN backup[key] ELSE data[key]]

\* The record returned for an invalid transcript
InvalidRecord ==
    [name |-> Null, phone |-> Null, address |-> Null, appointment |-> Null,
     type |-> <<"CALLBACK">>, confidence_score |-> 0,
     extraction_details |-> [error |-> "Invalid or empty transcript"]]

\* The minimal structure without its confidence_score
FallbackRecordNoScore(s) ==
    [name |-> Null, phone |-> Null, address |-> Null, appointment |-> Null,
     type |-> <<"CALLBACK">>,
     extraction_details |->
         [method |-> "fallback", transcript_length |-> Length(s),
          attempted_methods |-> <<"advanced", "natural", "structured">>]]

\* The minimal structure naming only the two methods tried before the tag
FallbackRecordTwoMethods(s) ==
    [name |-> Null, phone |-> Null, address |-> Null, appointment |-> Null,
     type |-> <<"CALLBACK">>, confidence_score |-> 0,
     extraction_details |->
         [method |-> "fallback", transcript_length |-> Length(s),
          attempted_methods |-> <<"advanced", "natural">>]]

\* The minimal structure returned when no method produced data
FallbackRecord(s) ==
    [name |-> Null, phone |-> Null, address |-> Null, appointment |-> Null,
     type |-> <<"CALLBACK">>, confidence_score |-> 0,
     extraction_details |->
         [method |-> "fallback", transcript_length |-> Length(s),
          attempted_methods |-> <<"advanced", "natural", "structured">>]]

Init ==
    /\ transcript \in Arguments
    /\ pc = "guard"
    /\ advancedData = NoResult
    /\ naturalData = NoResult
    /\ legacyData = NoResult
    /\ backupData = NoResult
    /\ extractedData = NoResult
    /\ preMerge = NoResult
    /\ calls = <<>>
    /\ returned = NoResult
    /\ StoreUnused

\* Lines 558-570: validate the transcript input
Guard ==
    /\ pc = "guard"
    /\ IF Invalid(transcript)
       THEN returned' = InvalidRecord /\ pc' = "done"
       ELSE returned' = returned /\ pc' = "method1"
    /\ UNCHANGED <<store, transcript, advancedData, naturalData, legacyData, backupData,
                   extractedData, preMerge, calls>>

\* Line 576: Method 1, advanced natural language.  An exception of the
\* strategy is not caught and ends the call.
Method1 ==
    /\ pc = "method1"
    /\ \E result \in {extractCustomerDataAdvanced(transcript.text)} :
          /\ advancedData' = result.data
          /\ extractedData' = result.data
          /\ pc' = IF result.threw THEN "thrown" ELSE "method2"
    /\ calls' = Append(calls, "advanced")
    /\ UNCHANGED <<store, transcript, naturalData, legacyData, backupData, preMerge, returned>>

\* The gate of Method 2 without its threshold
NeedsNaturalAnyScore(data) ==
    IsNoResult(data) \/ data.confidence_score # 0

\* Line 579: !extractedData ||
\*   (extractedData.confidence_score && extractedData.confidence_score < 0.5)
NeedsNatural(data) ==
    IsNoResult(data)
    \/ (data.confidence_score # 0 /\ data.confidence_score < Hundredths(50))

\* Lines 579-589: Method 2, standard natural language
Method2 ==
    /\ pc = "method2"
    /\ IF NeedsNatural(extractedData)
       THEN /\ naturalData' = extractCustomerDataNatural(transcript.text)
            /\ calls' = Append(calls, "natural")
            /\ extractedData' = IF ~IsNoResult(naturalData')
                                THEN Tagged(naturalData', Hundredths(60), "standard_natural")
                                ELSE extractedData
       ELSE UNCHANGED <<naturalData, calls, extractedData>>
    /\ pc' = "method3"
    /\ UNCHANGED <<store, transcript, advancedData, legacyData, backupData, preMerge,
                   returned>>

\* Lines 592-602: Method 3, fallback to the structured format
Method3 ==
    /\ pc = "method3"
    /\ IF IsNoResult(extractedData)
       THEN /\ legacyData' = extractCustomerData(transcript.text)
            /\ calls' = Append(calls, "structured")
            /\ extractedData' = IF ~IsNoResult(legacyData')
                                THEN Tagged(legacyData', Hundredths(80), "structured_format")
                                ELSE extractedData
       ELSE UNCHANGED <<legacyData, calls, extractedData>>
    /\ pc' = "method4"
    /\ UNCHANGED <<store, transcript, advancedData, naturalData, backupData, preMerge,
                   returned>>

\* Lines 605-615: Method 4, hybrid approach (the merge pass)
Method4 ==
    /\ pc = "method4"
    /\ IF ~IsNoResult(extractedData)
       THEN /\ backupData' = extractCustomerData(transcript.text)
            /\ calls' = Append(calls, "backup")
            /\ preMerge' = extractedData
            /\ extractedData' = IF ~IsNoResult(backupData')
                                THEN Merged(extractedData, backupData')
                                ELSE extractedData
       ELSE UNCHANGED <<backupData, calls, preMerge, extractedData>>
    /\ pc' = "final"
    /\ UNCHANGED <<store, transcript, advancedData, naturalData, legacyData, returned>>

\* Lines 618-637: final fallback, and return
Final ==
    /\ pc = "final"
    /\ extractedData' = IF IsNoResult(extractedData) THEN FallbackRecord(transcript.text)
                        ELSE extractedData
    /\ returned' = extractedData'
    /\ pc' = "done"
    /\ UNCHANGED <<store, transcript, advancedData, naturalData, legacyData, backupData,
                   preMerge, calls>>

Next == Guard \/ Method1 \/ Method2 \/ Method3 \/ Method4 \/ Final

Spec == Init /\ [][Next]_vars

-----------------------------------------------------------------------------
(* The contract of extractCustomerDataIntelligent *)

\* The transcript is missing, not a string, empty or only whitespace
Blanks == transcript.typeof # "string"
          \/ \A i \in 1..Len(transcript.text) : transcript.text[i] \in Blank

\* The strategy was invoked
Called(strategy) == \E i \in 1..Len(calls) : calls[i] = strategy

CallTypes == {<<"APPOINTMENT">>, <<"CALLBACK">>, <<"QUOTE">>}

\* C1: for every string transcript the call ends by returning a record; it
\* never throws and never returns null or undefined.
NeverThrows ==
    transcript.typeof = "string"
        => pc # "thrown" /\ (pc = "done" => ~IsNoResult(returned))

\* C2: in every record returned, type is present and is one of APPOINTMENT,
\* CALLBACK and QUOTE.
TypeAlwaysSet ==
    pc = "done" => "type" \in DOMAIN returned /\ returned.type \in CallTypes

\* C3: in every record returned, confidence_score is present and lies in
\* [0, 1]; it is 0 when the input was invalid or no strategy produced a result.
ConfidenceInRange ==
    pc = "done" =>
        /\ "confidence_score" \in DOMAIN returned
        /\ returned.confidence_score \in 0..Hundredths(100)
        /\ (Blanks \/ (IsNoResult(advancedData) /\ IsNoResult(naturalData)
                       /\ IsNoResult(legacyData)))
               => returned.confidence_score = 0

\* a valid transcript for which every strategy came back empty is answered
\* with confidence_score 0
ConfidenceZeroReached ==
    /\ pc = "done" /\ ~Blanks
    /\ calls = <<"advanced", "natural", "structured">>
    /\ IsNoResult(advancedData) /\ IsNoResult(naturalData) /\ IsNoResult(legacyData)
    /\ returned.confidence_score = 0

\* C4: for a missing, non-string, empty or blank transcript the guard returns
\* at once, no strategy having been invoked: name, phone, address and
\* appointment are null, type is CALLBACK, confidence_score is 0 and
\* extraction_details carries an error marker.
GuardReturnsDegenerate ==
    (Blanks /\ pc # "guard") =>
        /\ pc = "done" /\ calls = <<>>
        /\ returned.name = Null /\ returned.phone = Null
        /\ returned.address = Null /\ returned.appointment = Null
        /\ returned.type = <<"CALLBACK">> /\ returned.confidence_score = 0
        /\ "error" \in DOMAIN returned.extraction_details

\* a transcript of whitespace only has been answered by the guard
BlankTranscriptAnswered ==
    /\ pc = "done" /\ transcript.typeof = "string" /\ transcript.text = <<" ", "\n">>
    /\ DOMAIN returned.extraction_details = {"error"}

\* C5: in every record returned, a phone that is not null has passed the
\* phone validator and is in normalized domestic form.
PhoneValidated ==
    (pc = "done" /\ Get(returned, "phone") \notin {Null, Undefined}) =>
        /\ isValidGermanPhone(returned.phone)
        /\ normalizePhoneNumber(returned.phone) = returned.phone

\* C6: in every record returned, an address that is not null has passed the
\* address validator.
AddressValidated ==
    (pc = "done" /\ Get(returned, "address") \notin {Null, Undefined}) =>
        isValidAddress(returned.address)

\* Advanced returned no result, or one with a confidence below 0.5
AdvancedIsWeak ==
    IsNoResult(advancedData) \/ advancedData.confidence_score < Hundredths(50)

\* The record is the output natural of the Natural strategy in name, phone and
\* type, and is tagged 0.6 and standard_natural
IsNaturals(record, natural) ==
    /\ ~IsNoResult(natural)
    /\ record.name = natural.name
    /\ record.phone = natural.phone
    /\ record.type = natural.type
    /\ record.confidence_score = Hundredths(60)
    /\ record.extraction_details = [method |-> "standard_natural"]

\* C7, as claimed: when Advanced returns no result or one below 0.5 and
\* Natural succeeds, the record returned has exactly Natural's name, phone and
\* type, confidence_score 0.6 and extraction_details {method: standard_natural}.
NaturalReplacesExactly ==
    (pc = "done" /\ ~Blanks /\ AdvancedIsWeak
     /\ ~IsNoResult(extractCustomerDataNatural(transcript.text)))
        => IsNaturals(returned, extractCustomerDataNatural(transcript.text))

\* The field of the record returned is Natural's, or Natural's was empty (or,
\* where allowed, the placeholder) and the tag of the merge pass supplied it
NaturalsOrPatched(key, natural, placeholders) ==
    \/ returned[key] = natural[key]
    \/ /\ natural[key] \in {Null, <<>>} \cup placeholders
       /\ key \in DOMAIN backupData
       /\ returned[key] = backupData[key]

\* C7, amended: when Advanced returns no result or one below 0.5 and Natural
\* succeeds, the working result is Natural's output tagged 0.6 and
\* standard_natural, and the record returned has Natural's phone and type,
\* Natural's name unless that name is the placeholder 'Nicht erfasst' and the
\* merge pass took the name of the tag, and no field or detail of Advanced's.
NaturalReplaces ==
    (~Blanks /\ AdvancedIsWeak /\ pc \in {"method3", "method4", "final", "done"}
     /\ ~IsNoResult(extractCustomerDataNatural(transcript.text)))
        => /\ naturalData = extractCustomerDataNatural(transcript.text)
           /\ pc \in {"method3", "method4"} => IsNaturals(extractedData, naturalData)
           /\ pc \in {"final", "done"} => IsNaturals(preMerge, naturalData)
           /\ pc = "done" =>
                /\ DOMAIN returned = DOMAIN naturalData
                                     \cup {"confidence_score", "extraction_details"}
                /\ returned.phone = naturalData.phone
                /\ returned.type = naturalData.type
                /\ NaturalsOrPatched("name", naturalData, {Placeholder})
                /\ NaturalsOrPatched("address", naturalData, {})
                /\ NaturalsOrPatched("appointment", naturalData, {})
                /\ returned.confidence_score = Hundredths(60)
                /\ returned.extraction_details = [method |-> "standard_natural"]

\* a low-confidence Advanced record with per-field details has been replaced
\* by Natural's output
NaturalHasReplaced ==
    /\ pc = "done"
    /\ ~IsNoResult(advancedData) /\ advancedData.confidence_score < Hundredths(50)
    /\ "name_method" \in DOMAIN advancedData.extraction_details
    /\ advancedData.phone # naturalData.phone
    /\ IsNaturals(returned, naturalData)

OnlyTheTag ==
    /\ ~Blanks /\ pc \in {"thrown", "done"}
    /\ IsNoResult(advancedData)
    /\ IsNoResult(extractCustomerDataNatural(transcript.text))
    /\ ~IsNoResult(extractCustomerData(transcript.text))

\* C9: when neither Advanced nor Natural yields a result and the transcript
\* holds a DATENERFASSUNG line with at least one key, the record returned has
\* the values of the tag, confidence_score 0.8 and extraction_details
\* {method: structured_format}.
StructuredAdopted ==
    OnlyTheTag =>
        /\ pc = "done"
        /\ \A key \in DOMAIN extractCustomerData(transcript.text) :
               key \in DOMAIN returned
               /\ returned[key] = extractCustomerData(transcript.text)[key]
        /\ returned.confidence_score = Hundredths(80)
        /\ returned.extraction_details = [method |-> "structured_format"]

\* C10: the merge pass runs whenever a working result exists; each key of the
\* tag overwrites the field of the working result if and only if that field is
\* null, empty, absent or the placeholder 'Nicht erfasst'; every other field
\* is left unchanged.
MergeFillsHoles ==
    (~Blanks /\ pc \in {"final", "done"}) =>
        /\ Called("backup") <=> ~(IsNoResult(advancedData) /\ IsNoResult(naturalData)
                                  /\ IsNoResult(legacyData))
        /\ Called("backup") =>
               /\ backupData = extractCustomerData(transcript.text)
               /\ DOMAIN extractedData = DOMAIN preMerge \cup DOMAIN backupData
               /\ \A key \in DOMAIN backupData :
                      IF key \notin DOMAIN preMerge
                         \/ preMerge[key] \in {Null, <<>>, Placeholder}
                      THEN extractedData[key] = backupData[key]
                      ELSE extractedData[key] = preMerge[key]
               /\ \A key \in DOMAIN preMerge \ DOMAIN backupData :
                      extractedData[key] = preMerge[key]

\* the merge pass has filled an empty address from the tag and has left a
\* name alone that the tag gives differently
MergeHasFilled ==
    /\ pc = "done" /\ Called("backup")
    /\ {"name", "address"} \subseteq DOMAIN backupData
    /\ preMerge.address = Null /\ returned.address = backupData.address
    /\ preMerge.name # backupData.name /\ returned.name = preMerge.name

\* The degenerate record of a valid transcript: no data, CALLBACK, confidence
\* 0 and the three attempted methods listed
IsDegenerate(record) ==
    /\ \A key \in {"name", "phone", "address", "appointment"} :
           Get(record, key) = Null
    /\ Get(record, "type") = <<"CALLBACK">>
    /\ record.confidence_score = 0
    /\ "attempted_methods" \in DOMAIN record.extraction_details
    /\ record.extraction_details.attempted_methods
           = <<"advanced", "natural", "structured">>

\* C11: for a valid transcript the record returned is the degenerate record
\* (data fields null, type CALLBACK, confidence_score 0, extraction_details
\* listing advanced, natural, structured) if and only if all three strategies
\* returned no result.
FallbackIffNothing ==
    (pc = "done" /\ ~Blanks) =>
        (IsDegenerate(returned)
            <=> /\ calls = <<"advanced", "natural", "structured">>
                /\ IsNoResult(advancedData) /\ IsNoResult(naturalData)
                /\ IsNoResult(legacyData))

\* a transcript with text in it has been answered with the fallback record
FallbackReached ==
    /\ pc = "done" /\ ~Blanks
    /\ "method" \in DOMAIN returned.extraction_details
    /\ returned.extraction_details.method = "fallback"
    /\ returned.extraction_details.transcript_length > 0

ExtractionResultKeys ==
    {"name", "phone", "address", "appointment", "type", "confidence_score",
     "extraction_details"}

\* C12: every record returned has all of name, phone, address, appointment,
\* type, confidence_score and extraction_details, also when Structured-Tag is
\* the primary source and the tag carries only some keys.
StableShape ==
    pc = "done" => DOMAIN returned = ExtractionResultKeys

-----------------------------------------------------------------------------
(* The validation helper functions, each called on its own *)

\* Longest name candidate, in tokens
MaxNameTokens == 3
\* Longest run of digits behind the prefix of a phone candidate
MaxDigits == 12
\* Longest address candidate, in tokens
MaxAddressTokens == 5

\* All sequences of at most n tokens of the set S
Upto(S, n) == UNION {[1..k -> S] : k \in 0..n}

NameCandidates ==
    Upto({"Hallo", "Max", "Mustermann", "Ja", "x", " ", "1", "-",
          "kraftfahrzeughaftpflichtversicherung"}, MaxNameTokens)
    \cup {<<"1", "2", "3">>, <<"Max", " ", "Mustermann">>}

PhonePrefixes ==
    {<<>>, <<"0">>, <<"0", "0">>, <<"+">>, <<"+", "4", "9">>, <<"+", "4", "9", " ">>,
     <<"0", "3", "0">>, <<"0", "3", "0", "+">>, <<"0", "5", "2", "1", " ">>,
     <<"+", "4", "9", " ", "5", "2", "1", " ">>, <<"0", "+", "4", "9">>,
     <<"+", "4", "9", "+", "4", "9">>, <<"Telefon", " ">>}

PhoneCandidates ==
    {prefix \o SubSeq(<<"1", "2", "3", "4", "5", "6", "7", "8", "9", "0", "1", "2",
                        "3", "4", "5", "6">>, 1, n) :
        prefix \in PhonePrefixes, n \in 0..MaxDigits}

AddressCandidates == Upto({"Weg", " ", ",", "1"}, MaxAddressTokens)

\* A string argument
String(s) == [typeof |-> "string", text |-> s]

InitValidators ==
    /\ \/ pc = "isValidName" /\ transcript \in {String(s) : s \in NameCandidates}
       \/ pc \in {"normalizePhoneNumber", "isValidGermanPhone"}
          /\ transcript \in {String(s) : s \in PhoneCandidates}
       \/ pc = "cleanAddress" /\ transcript \in {String(s) : s \in AddressCandidates}
    /\ advancedData = NoResult
    /\ naturalData = NoResult
    /\ legacyData = NoResult
    /\ backupData = NoResult
    /\ extractedData = NoResult
    /\ preMerge = NoResult
    /\ calls = <<>>
    /\ returned = NoResult
    /\ StoreUnused

\* The function fn has been applied to the argument arg and has returned value
Returns(fn, arg, value, next) ==
    /\ returned' = [value |-> value, argument |-> arg]
    /\ calls' = Append(calls, fn)
    /\ pc' = next
    /\ UNCHANGED <<store, transcript, advancedData, naturalData, legacyData, backupData,
                   extractedData, preMerge>>

\* isValidName(name); the truth value of what it returns
IsValidNameCall ==
    /\ pc = "isValidName"
    /\ Returns("isValidName", transcript.text, isValidName(transcript.text), "returned")

\* normalizePhoneNumber(phone)
NormalizePhoneNumberCall ==
    /\ pc = "normalizePhoneNumber"
    /\ Returns("normalizePhoneNumber", transcript.text,
               normalizePhoneNumber(transcript.text), "normalized")

\* normalizePhoneNumber applied to what normalizePhoneNumber returned
NormalizePhoneNumberAgain ==
    /\ pc = "normalized"
    /\ Returns("normalizePhoneNumber", returned.value,
               normalizePhoneNumber(returned.value), "returned")

\* isValidGermanPhone(phone); the truth value of what it returns
IsValidGermanPhoneCall ==
    /\ pc = "isValidGermanPhone"
    /\ Returns("isValidGermanPhone", transcript.text,
               isValidGermanPhone(transcript.text), "returned")

\* cleanAddress(address)
CleanAddressCall ==
    /\ pc = "cleanAddress"
    /\ Returns("cleanAddress", transcript.text, cleanAddress(transcript.text), "cleaned")

\* cleanAddress applied to what cleanAddress returned
CleanAddressAgain ==
    /\ pc = "cleaned"
    /\ Returns("cleanAddress", returned.value, cleanAddress(returned.value), "returned")

NextValidators ==
    \/ IsValidNameCall
    \/ NormalizePhoneNumberCall \/ NormalizePhoneNumberAgain
    \/ IsValidGermanPhoneCall
    \/ CleanAddressCall \/ CleanAddressAgain

SpecValidators == InitValidators /\ [][NextValidators]_vars

\* The function fn has returned from its n-th call in a row
Returned(fn, n) == pc # fn /\ calls = [i \in 1..n |-> fn]

\* C14: normalizePhoneNumber is idempotent: applied to its own result, it
\* returns that result.
NormalizeIdempotent ==
    Returned("normalizePhoneNumber", 2) => returned.value = returned.argument

\* +49 521 1234567 has been normalized to 05211234567, and then once more
NormalizedTwice ==
    /\ Returned("normalizePhoneNumber", 2)
    /\ transcript.text = <<"+", "4", "9", " ", "5", "2", "1", " ",
                           "1", "2", "3", "4", "5", "6", "7">>
    /\ returned.value = <<"0", "5", "2", "1", "1", "2", "3", "4", "5", "6", "7">>

\* n starts with 0, is 10 to 12 digits, and begins with a whitelisted area
\* code or is 0, a digit 1-9 and 8 to 10 more digits
DomesticNumber(n) ==
    /\ Len(n) \in 10..12
    /\ \A i \in 1..Len(n) : n[i] \in Digit
    /\ n[1] = "0"
    /\ \/ \E code \in validAreaCodes : SubSeq(n, 1, Len(code)) = code
       \/ n[2] # "0" /\ Len(n) - 2 \in 8..10

\* C15: isValidGermanPhone accepts a string exactly when its normalized form
\* starts with 0, has 10 to 12 digits and begins with a whitelisted area code
\* or has the shape 0[1-9] and 8 to 10 digits; '+49 521 1234567' and
\* '0521 1234567' are accepted and normalize to the same digits.
PhoneAcceptance ==
    Returned("isValidGermanPhone", 1) =>
        /\ returned.value <=> DomesticNumber(normalizePhoneNumber(returned.argument))
        /\ returned.argument \in
               {<<"+", "4", "9", " ", "5", "2", "1", " ", "1", "2", "3", "4", "5", "6", "7">>,
                <<"0", "5", "2", "1", " ", "1", "2", "3", "4", "5", "6", "7">>}
               => /\ returned.value
                  /\ normalizePhoneNumber(returned.argument)
                        = <<"0", "5", "2", "1", "1", "2", "3", "4", "5", "6", "7">>

\* C16: isValidName is false for a candidate shorter than 2 characters, longer
\* than 50, with a digit, without a letter, or equal to a stoplist token
\* whatever the case, and true for every other candidate; 'Hallo', '123' and
\* '' are rejected, 'Max Mustermann' is accepted.
NameAcceptance ==
    Returned("isValidName", 1) =>
        /\ returned.value <=>
               ~ \/ Length(returned.argument) < 2
                 \/ Length(returned.argument) > 50
                 \/ \E i \in 1..Len(returned.argument) : returned.argument[i] \in Digit
                 \/ \A i \in 1..Len(returned.argument) :
                        Lower(returned.argument[i]) \notin Letter
                 \/ \E token \in invalidNames : LowerCase(returned.argument) = token
        /\ returned.argument \in {<<"Hallo">>, <<"1", "2", "3">>, <<>>}
               => ~returned.value
        /\ returned.argument = <<"Max", " ", "Mustermann">> => returned.value

\* 'Max Mustermann' has been accepted
NameAccepted ==
    /\ Returned("isValidName", 1)
    /\ transcript.text = <<"Max", " ", "Mustermann">>
    /\ returned.value

\* a has no blank or comma at either end, no two blanks in a row and no two
\* commas with only blanks between them
IsClean(a) ==
    /\ a # <<>> => a[1] \notin Blank \cup {","} /\ a[Len(a)] \notin Blank \cup {","}
    /\ \A i \in 1..(Len(a) - 1) : ~(a[i] \in Blank /\ a[i + 1] \in Blank)
    /\ \A i, j \in 1..Len(a) :
           (i < j /\ a[i] = "," /\ a[j] = ",") => \E k \in (i + 1)..(j - 1) : a[k] \notin Blank

\* C17: the result of cleanAddress has no leading or trailing whitespace or
\* comma, no run of whitespace and no two commas separated only by whitespace,
\* so that cleanAddress applied to it changes nothing.
CleanAddressIsClean ==
    /\ (pc # "cleanAddress" /\ calls # <<>> /\ calls[1] = "cleanAddress")
           => IsClean(returned.value)
    /\ Returned("cleanAddress", 2) => returned.value = returned.argument

-----------------------------------------------------------------------------
(* extractCustomerDataAdvanced, called on its own and followed step by step *)

InitAdvanced ==
    /\ transcript \in Arguments
    /\ pc = "advanced"
    /\ advancedData = NoResult
    /\ naturalData = NoResult
    /\ legacyData = NoResult
    /\ backupData = NoResult
    /\ extractedData = NoResult
    /\ preMerge = NoResult
    /\ calls = <<>>
    /\ returned = NoResult
    /\ StoreUnused

\* The step of extractCustomerDataAdvanced leaves its local extractedData as
\* data and goes on at next
AdvancedStep(data, next) ==
    /\ extractedData' = data
    /\ pc' = next
    /\ UNCHANGED <<store, transcript, advancedData, naturalData, legacyData, backupData,
                   preMerge, calls, returned>>

\* extractedData with the field set by the rule hit, and the rule's method
\* and confidence in extraction_details
WithField(data, field, hit, methods) ==
    IF hit.found
    THEN [data EXCEPT ![field] = hit.value,
                      !.extraction_details = FieldDetails(field, hit, methods) @@ @]
    ELSE data

\* Lines 249-263: the guard and the initial extractedData
AdvancedEnter ==
    /\ pc = "advanced"
    /\ IF Invalid(transcript)
       THEN AdvancedStep(NoResult, "returned")
       ELSE AdvancedStep([name |-> Null, phone |-> Null, address |-> Null,
                          appointment |-> Null, type |-> <<"CALLBACK">>,
                          confidence_score |-> 0, extraction_details |-> Empty],
                         "name")

\* Lines 268-305: name extraction
AdvancedName ==
    /\ pc = "name"
    /\ AdvancedStep(WithField(extractedData, "name", NameLoop(transcript.text, 1),
                              nameExtractionMethods), "phone")

\* Lines 307-339: phone extraction; normalizePhoneNumber may throw
AdvancedPhone ==
    /\ pc = "phone"
    /\ \E hit \in {PhoneLoop(transcript.text, 1)} :
          AdvancedStep(WithField(extractedData, "phone", hit, phoneExtractionMethods),
                       IF hit.threw THEN "thrown" ELSE "address")

\* Lines 341-373: address extraction
AdvancedAddress ==
    /\ pc = "address"
    /\ AdvancedStep(WithField(extractedData, "address", AddressLoop(transcript.text, 1),
                              addressExtractionMethods), "appointment")

\* Lines 375-398: appointment detection
AdvancedAppointment ==
    /\ pc = "appointment"
    /\ AdvancedStep(WithField(extractedData, "appointment",
                              AppointmentLoop(transcript.text, 1), appointmentMethods),
                    "type")

\* Lines 400-432: call type determination
AdvancedType ==
    /\ pc = "type"
    /\ AdvancedStep([extractedData EXCEPT
                        !.type = CallType(LowerCase(transcript.text),
                                          extractedData.address,
                                          extractedData.appointment)],
                    "confidence")

\* let totalConfidence: the sum of the confidences recorded for name, phone
\* and address
TotalConfidence(details) ==
    (IF "name_confidence" \in DOMAIN details THEN details.name_confidence ELSE 0)
    + (IF "phone_confidence" \in DOMAIN details THEN details.phone_confidence ELSE 0)
    + (IF "address_confidence" \in DOMAIN details THEN details.address_confidence ELSE 0)

\* [name, phone, address].filter(Boolean).length
FieldCount(data) ==
    Cardinality({field \in {"name", "phone", "address"} : ~Falsy(data[field])})

\* Lines 434-441: the confidence score, and return
AdvancedReturn ==
    /\ pc = "confidence"
    /\ extractedData' =
           [extractedData EXCEPT
               !.confidence_score =
                   AdvancedConfidence(TotalConfidence(extractedData.extraction_details),
                                      FieldCount(extractedData))]
    /\ returned' = IF extractedData'.confidence_score > Hundredths(30)
                   THEN extractedData' ELSE NoResult
    /\ pc' = "returned"
    /\ UNCHANGED <<store, transcript, advancedData, naturalData, legacyData, backupData,
                   preMerge, calls>>

NextAdvanced ==
    \/ AdvancedEnter \/ AdvancedName \/ AdvancedPhone \/ AdvancedAddress
    \/ AdvancedAppointment \/ AdvancedType \/ AdvancedReturn

SpecAdvanced == InitAdvanced /\ [][NextAdvanced]_vars

-----------------------------------------------------------------------------
(* Properties of extractCustomerDataAdvanced *)

\* The positions of extractCustomerDataAdvanced at which the loop of a field is
\* over, whether it ran to its end or was left by an exception
LoopOver(field) ==
    CASE field = "name" -> {"phone", "address", "appointment", "type", "confidence",
                            "thrown"}
      [] field = "phone" -> {"address", "appointment", "type", "confidence", "thrown"}
      [] field = "address" -> {"appointment", "type", "confidence"}

\* The candidate of a rule: the text of group 1 of the rule's first match,
\* trimmed (name), normalized (phone) or cleaned (address)
Candidate(field, capture) ==
    CASE field = "name" -> Trim(capture)
      [] field = "phone" -> normalizePhoneNumber(capture)
      [] field = "address" -> cleanAddress(capture)

Passes(field, candidate) ==
    CASE field = "name" -> isValidName(candidate)
      [] field = "phone" -> isValidGermanPhone(candidate)
      [] field = "address" -> isValidAddress(candidate)

RulesOf(field) ==
    CASE field = "name" -> nameExtractionMethods
      [] field = "phone" -> phoneExtractionMethods
      [] field = "address" -> addressExtractionMethods

\* Rule k of the field matches in s and its candidate passes the validator
RulePasses(field, k, s) ==
    LET Of(match) == match # <<>> /\ Passes(field, Candidate(field, match[2]))
    IN Of(MatchOnce(RulesOf(field)[k].pattern, s))

\* The field and its two entries of extraction_details are those of rule k
SetFromRule(data, field, k, s) ==
    /\ LET Of(match) == match # <<>> /\ data[field] = Candidate(field, match[2])
       IN Of(MatchOnce(RulesOf(field)[k].pattern, s))
    /\ {field \o "_method", field \o "_confidence"} \subseteq DOMAIN data.extraction_details
    /\ data.extraction_details[field \o "_method"] = RulesOf(field)[k].description
    /\ data.extraction_details[field \o "_confidence"] = RulesOf(field)[k].confidence

\* The field is null and extraction_details has no entry for it
LeftUnset(data, field) ==
    /\ data[field] = Null
    /\ {field \o "_method", field \o "_confidence"} \cap DOMAIN data.extraction_details = {}

\* The field is set from the first of the rules that passes, and left unset if
\* none does
FromFirstPassing(data, field, s) ==
    LET From(passing) ==
            IF passing = {} THEN LeftUnset(data, field)
            ELSE SetFromRule(data, field,
                             CHOOSE k \in passing : \A j \in passing : k <= j, s)
    IN From({k \in 1..Len(RulesOf(field)) : RulePasses(field, k, s)})

\* C18: once the loop of name, phone or address is over, the field is set from
\* the first rule in declared order that matches and whose candidate passes
\* the validator, with that rule's label and weight in extraction_details, and
\* it is null without such an entry when no rule passes.
RulesInOrder ==
    \A field \in {"name", "phone", "address"} :
        pc \in LoopOver(field) => FromFirstPassing(extractedData, field, transcript.text)

\* Of the phone rules only the generic one passes in s, it matches one text
\* only, and that text is a valid number
OnlyGenericNumber(s) ==
    /\ ~RulePasses("phone", 1, s)
    /\ ~RulePasses("phone", 2, s)
    /\ Len(MatchAll(phoneExtractionMethods[3].pattern, s, 1)) = 1
    /\ RulePasses("phone", 3, s)

\* C19: once the phone loop is over for a transcript whose only phone-like
\* text is one valid number that only the generic rule reaches, phone is that
\* number, normalized, with method 'Phone number pattern' and weight 0.7; and
\* whichever rule a field is recorded to come from, the field is the candidate
\* of that rule's first match.
FirstMatchStored ==
    /\ pc \in LoopOver("phone") /\ OnlyGenericNumber(transcript.text)
          => /\ SetFromRule(extractedData, "phone", 3, transcript.text)
             /\ extractedData.extraction_details.phone_method = "Phone number pattern"
             /\ extractedData.extraction_details.phone_confidence = 70
    /\ \A field \in {"name", "phone", "address"} :
          pc \in LoopOver(field) /\ extractedData[field] # Null
             => \E k \in 1..Len(RulesOf(field)) :
                   SetFromRule(extractedData, field, k, transcript.text)

\* The intent scores: keywords contained in the lowercased transcript, plus 3
\* for APPOINTMENT with an address and plus 2 with an appointment phrase
IntentScores(data, transcriptLower) ==
    [type \in {"APPOINTMENT", "CALLBACK", "QUOTE"} |->
        KeywordScore(transcriptLower, type)
        + (IF type = "APPOINTMENT" /\ data.address # Null THEN 3 ELSE 0)
        + (IF type = "APPOINTMENT" /\ data.appointment # Null THEN 2 ELSE 0)]

\* The type whose score is strictly above every other, CALLBACK if there is none
StrictlyHighest(scores) ==
    LET Of(winners) == IF winners = {} THEN <<"CALLBACK">>
                       ELSE <<CHOOSE type \in winners : TRUE>>
    IN Of({type \in DOMAIN scores :
              \A other \in DOMAIN scores \ {type} : scores[other] < scores[type]})

\* C20: once the call type is determined, it is the type with the strictly
\* highest intent score, and CALLBACK when all scores are zero or the highest
\* score is shared.
StrictlyHighestWins ==
    pc = "confidence"
       => extractedData.type
             = StrictlyHighest(IntentScores(extractedData, LowerCase(transcript.text)))

\* The types in the order of their declaration in typeIndicators
DeclaredOrder == <<"APPOINTMENT", "CALLBACK", "QUOTE">>

\* The highest of the scores
HighestScore(scores) ==
    CHOOSE m \in {scores[type] : type \in DOMAIN scores} :
        \A type \in DOMAIN scores : scores[type] <= m

\* The first type in declared order that has the highest score
FirstDeclared(scores) ==
    LET First(at) == <<DeclaredOrder[CHOOSE i \in at : \A j \in at : i <= j]>>
    IN First({i \in 1..Len(DeclaredOrder) :
                 scores[DeclaredOrder[i]] = HighestScore(scores)})

SharedHighest(scores) ==
    /\ HighestScore(scores) > 0
    /\ Cardinality({type \in DOMAIN scores : scores[type] = HighestScore(scores)}) >= 2

WeightOf(data, field) ==
    IF data[field] = Null THEN 0
    ELSE RulesOf(field)[CHOOSE k \in 1..Len(RulesOf(field)) :
                            RulesOf(field)[k].description
                               = data.extraction_details[field \o "_method"]].confidence

\* min(1, (sum of the weights) / 3 * (number of non-null fields) / 3), in 1/900
ClaimedConfidence(data) ==
    Min(Hundredths(100),
        (WeightOf(data, "name") + WeightOf(data, "phone") + WeightOf(data, "address"))
        * Cardinality({field \in {"name", "phone", "address"} : data[field] # Null}))

\* C22: when extractCustomerDataAdvanced returns for a valid transcript, its
\* confidence_score is min(1, sum of the weights of the rules that set name,
\* phone and address / 3 * number of non-null fields among them / 3), and it
\* returns null exactly when that value is at most 0.3, its record otherwise.
ConfidenceFormula ==
    pc = "returned" /\ ~IsNoResult(extractedData)
       => /\ extractedData.confidence_score = ClaimedConfidence(extractedData)
          /\ IsNoResult(returned) <=> ClaimedConfidence(extractedData) <= Hundredths(30)
          /\ ~IsNoResult(returned) => returned = extractedData

ConfidenceReturned ==
    /\ pc = "returned"
    /\ ~IsNoResult(returned)
    /\ Cardinality({field \in {"name", "phone", "address"} : returned[field] # Null}) = 2

-----------------------------------------------------------------------------
(* The gate between the Advanced and the Natural strategy *)

\* How many of name, phone and address the Advanced strategy populates for s;
\* the address is not looked for once the phone loop has thrown
PopulatedByAdvanced(s) ==
    LET Count(name, phone) ==
            (IF name.found THEN 1 ELSE 0) + (IF phone.found THEN 1 ELSE 0)
            + (IF ~phone.threw /\ AddressLoop(s, 1).found THEN 1 ELSE 0)
    IN Count(NameLoop(s, 1), PhoneLoop(s, 1))

\* C26: once the orchestrator is past its call of the Advanced strategy, the
\* strategy has returned a result exactly if it populated at least two of
\* name, phone and address, the result's confidence is at least 0.5 exactly
\* if it populated all three, and once the orchestrator is past Method 2 or
\* has ended, the Natural strategy was called whenever Advanced populated
\* fewer than three.
AdvancedGate ==
    Called("advanced")
       => LET Gate(populated) ==
                  /\ ~IsNoResult(advancedData) <=> populated >= 2
                  /\ ~IsNoResult(advancedData)
                        => (advancedData.confidence_score >= Hundredths(50)
                               <=> populated = 3)
                  /\ pc \in {"method3", "method4", "final", "done", "thrown"}
                        /\ populated < 3
                        => Called("natural")
          IN Gate(PopulatedByAdvanced(transcript.text))

-----------------------------------------------------------------------------
(* extractCustomerDataNatural, called on its own and followed step by step *)

\* Further things a caller says, for the filters of the Natural strategy
NaturalSayings ==
    { \* Ich bin Termin, Telefon 0521 1234567.
      <<"Ich", " ", "bin", " ", "Termin", ",", " ", "Telefon", " ",
        "0", "5", "2", "1", " ", "1", "2", "3", "4", "5", "6", "7", ".", " ">>,
      \* Ich bin Anna Schmidt, Telefon 0521 1234.
      <<"Ich", " ", "bin", " ", "Anna", " ", "Schmidt", ",", " ", "Telefon", " ",
        "0", "5", "2", "1", " ", "1", "2", "3", "4", ".", " ">>,
      \* Ich bin Anna Schmidt, Telefon +49 52 11 2 3.
      <<"Ich", " ", "bin", " ", "Anna", " ", "Schmidt", ",", " ", "Telefon", " ",
        "+", "4", "9", " ", "5", "2", " ", "1", "1", " ", "2", " ", "3", ".", " ">>,
      \* Hallo Max Mustermann. Ich bin Ja, Telefon 0521 1234567.
      <<"Hallo", " ", "Max", " ", "Mustermann", ".", " ",
        "Ich", " ", "bin", " ", "Ja", ",", " ", "Telefon", " ",
        "0", "5", "2", "1", " ", "1", "2", "3", "4", "5", "6", "7", ".", " ">> }

InitNatural ==
    /\ transcript \in Arguments \cup {String(s) : s \in NaturalSayings}
    /\ pc = "natural"
    /\ advancedData = NoResult
    /\ naturalData = NoResult
    /\ legacyData = NoResult
    /\ backupData = NoResult
    /\ extractedData = NoResult
    /\ preMerge = NoResult
    /\ calls = <<>>
    /\ returned = NoResult
    /\ StoreUnused

\* The step of extractCustomerDataNatural leaves its local extractedData as
\* data and goes on at next
NaturalStep(data, next) ==
    /\ extractedData' = data
    /\ pc' = next
    /\ UNCHANGED <<store, transcript, advancedData, naturalData, legacyData, backupData,
                   preMerge, calls, returned>>

\* Lines 448-460: the guard and the initial extractedData
NaturalEnter ==
    /\ pc = "natural"
    /\ IF Invalid(transcript)
       THEN NaturalStep(NoResult, "returned")
       ELSE NaturalStep([name |-> Null, phone |-> Null, address |-> Null,
                          appointment |-> Null, type |-> <<"CALLBACK">>], "name")

\* Lines 464-479: basic name patterns
NaturalName ==
    /\ pc = "name"
    /\ NaturalStep([extractedData EXCEPT !.name = NaturalNameLoop(transcript.text, 1)],
                    "phone")

\* Lines 481-496: basic phone patterns
NaturalPhone ==
    /\ pc = "phone"
    /\ NaturalStep([extractedData EXCEPT !.phone = NaturalPhoneLoop(transcript.text, 1)],
                    "address")

\* Lines 498-509: basic address patterns
NaturalAddress ==
    /\ pc = "address"
    /\ NaturalStep([extractedData EXCEPT
                        !.address = NaturalAddressLoop(transcript.text, 1)], "type")

\* Lines 511-514: basic appointment detection
NaturalType ==
    /\ pc = "type"
    /\ NaturalStep(IF Includes(LowerCase(transcript.text), <<"termin">>)
                       \/ Includes(LowerCase(transcript.text), <<"besichtigung">>)
                    THEN [extractedData EXCEPT !.type = <<"APPOINTMENT">>]
                    ELSE extractedData, "quality")

\* Lines 516-517: the quality check, and return
NaturalReturn ==
    /\ pc = "quality"
    /\ returned' = IF hasValidData(extractedData) THEN extractedData ELSE NoResult
    /\ pc' = "returned"
    /\ UNCHANGED <<store, transcript, advancedData, naturalData, legacyData, backupData,
                   extractedData, preMerge, calls>>

NextNatural ==
    \/ NaturalEnter \/ NaturalName \/ NaturalPhone \/ NaturalAddress \/ NaturalType
    \/ NaturalReturn

SpecNatural == InitNatural /\ [][NextNatural]_vars

-----------------------------------------------------------------------------
(* Properties of extractCustomerDataNatural *)

\* C23: extractCustomerDataNatural returns its record exactly when it found
\* both a name and a phone, and null in every other case, whatever it found
\* as address or type; for an invalid transcript it returns null.
NaturalNeedsBoth ==
    pc = "returned"
       => IF IsNoResult(extractedData) THEN IsNoResult(returned)
          ELSE /\ ~IsNoResult(returned)
                     <=> extractedData.name # Null /\ extractedData.phone # Null
               /\ ~IsNoResult(returned) => returned = extractedData

NaturalMissWithAddress ==
    /\ pc = "returned"
    /\ ~IsNoResult(extractedData)
    /\ extractedData.address # Null
    /\ extractedData.type = <<"APPOINTMENT">>
    /\ extractedData.name = Null
    /\ IsNoResult(returned)

\* The inline list of false positives of the name filter
NaturalStoplist ==
    {<<"heute">>, <<"morgen">>, <<"termin">>, <<"unfall">>, <<"auto">>, <<"fahrzeug">>,
     <<"schaden">>}

\* The name candidate passes the inline filter
PassesInlineFilter(name) ==
    /\ Length(name) > 2
    /\ LowerCase(name) \notin NaturalStoplist
    /\ \A i \in 1..Len(name) : name[i] \notin Digit

\* The name of the first pattern that matches with a candidate passing the
\* inline filter, null if there is none
FirstFilteredName(s) ==
    LET Passing(k) ==
            LET Of(match) == match # <<>> /\ PassesInlineFilter(Trim(match[2]))
            IN Of(MatchOnce(namePatterns[k], s))
        Name(passing) ==
            IF passing = {} THEN Null
            ELSE Trim(MatchOnce(namePatterns[CHOOSE k \in passing :
                                                 \A j \in passing : k <= j], s)[2])
    IN Name({k \in 1..Len(namePatterns) : Passing(k)})

\* Number of digits of a phone number
Digits(phone) == Cardinality({i \in 1..Len(phone) : phone[i] \in Digit})

\* C24: once the name loop of extractCustomerDataNatural is over, name is the
\* candidate of the first pattern whose candidate is longer than 2 characters,
\* has no digit and is not a word of the inline stoplist (null if there is
\* none), also when the shared validator would reject it; and once the phone
\* loop is over, a phone that was accepted has at least 9 digits.
NaturalFilters ==
    /\ pc \in {"phone", "address", "type", "quality"}
          => extractedData.name = FirstFilteredName(transcript.text)
    /\ pc \in {"address", "type", "quality"} /\ extractedData.phone # Null
          => Digits(extractedData.phone) >= 9

-----------------------------------------------------------------------------
(* extractCustomerData, called on its own and followed step by step *)

\* Further transcripts, for the tag of the Structured strategy
StructuredSayings ==
    { \* DATENERFASSUNG: Typ=[QUOTE]
      <<"DATENERFASSUNG", ":", " ", "Typ", "=", "[", "QUOTE", "]", "\n">>,
      \* DATENERFASSUNG: Name=[ Herr ] Termin=[ ]
      <<"DATENERFASSUNG", ":", " ", "Name", "=", "[", " ", "Herr", " ", "]", " ",
        "Termin", "=", "[", " ", "]", "\n">>,
      \* datenerfassung: name=[Peter Lustig]
      <<"datenerfassung", ":", " ", "name", "=", "[", "Peter", " ", "Lustig", "]", "\n">>,
      \* Name=[Peter Lustig] Telefon=[05211234567]
      <<"Name", "=", "[", "Peter", " ", "Lustig", "]", " ",
        "Telefon", "=", "[", "0", "5", "2", "1", "1", "2", "3", "4", "5", "6", "7",
        "]", "\n">>,
      \* Angebot. DATENERFASSUNG: Telefon=[123] Name=[Peter Lustig] Name=[Anna]
      <<"Angebot", ".", " ", "DATENERFASSUNG", ":", " ",
        "Telefon", "=", "[", "1", "2", "3", "]", " ",
        "Name", "=", "[", "Peter", " ", "Lustig", "]", " ",
        "Name", "=", "[", "Anna", "]", "\n">> }

InitStructured ==
    /\ transcript \in Arguments \cup {String(s) : s \in StructuredSayings}
    /\ pc = "structured"
    /\ advancedData = NoResult
    /\ naturalData = NoResult
    /\ legacyData = NoResult
    /\ backupData = NoResult
    /\ extractedData = NoResult
    /\ preMerge = NoResult
    /\ calls = <<>>
    /\ returned = NoResult
    /\ StoreUnused

\* The step of extractCustomerData leaves its local extractedData as data and
\* goes on at next
StructuredStep(data, next) ==
    /\ extractedData' = data
    /\ pc' = next
    /\ UNCHANGED <<store, transcript, advancedData, naturalData, legacyData, backupData,
                   preMerge, calls, returned>>

\* transcript.match(/DATENERFASSUNG:\s*(.+)/i)
dataMatch(s) ==
    MatchOnce(Cat(<<Lit("datenerfassung"), Lit(":"), Star(Tok(Blank)),
                    Grp(1, Plus(Tok(AnyChar)))>>), s)

\* The value of a key without its trim()
KeyValueUntrimmed(match) == At(match, 1)

\* match[1].trim()
KeyValue(match) == Trim(At(match, 1))

\* Object.entries(patterns), in the order of declaration
patternEntries == <<"name", "phone", "address", "appointment", "type">>

\* Lines 524-528: the guard
StructuredGuard ==
    /\ pc = "structured"
    /\ StructuredStep(NoResult,
                      IF transcript.typeof # "string" \/ transcript.text = <<>>
                      THEN "returned" ELSE "marker")

\* Lines 530-534: the marker, and the empty extractedData
StructuredMarker ==
    /\ pc = "marker"
    /\ StructuredStep(Empty,
                      IF dataMatch(transcript.text) = <<>> THEN "returned"
                      ELSE patternEntries[1])

\* Lines 544-549: one turn of the loop over the patterns
StructuredKey ==
    \E k \in 1..Len(patternEntries) :
        /\ pc = patternEntries[k]
        /\ \E match \in {MatchOnce(patterns[patternEntries[k]],
                                   At(dataMatch(transcript.text), 1))} :
              StructuredStep(IF match # <<>>
                             THEN (patternEntries[k] :> KeyValue(match)) @@ extractedData
                             ELSE extractedData,
                             IF k < Len(patternEntries) THEN patternEntries[k + 1]
                             ELSE "keys")

\* Line 551: return
StructuredReturn ==
    /\ pc = "keys"
    /\ returned' = IF Cardinality(DOMAIN extractedData) > 0 THEN extractedData
                   ELSE NoResult
    /\ pc' = "returned"
    /\ UNCHANGED <<store, transcript, advancedData, naturalData, legacyData, backupData,
                   extractedData, preMerge, calls>>

NextStructured ==
    StructuredGuard \/ StructuredMarker \/ StructuredKey \/ StructuredReturn

SpecStructured == InitStructured /\ [][NextStructured]_vars

-----------------------------------------------------------------------------
(* Properties of extractCustomerData *)

\* The least number of a non-empty set of numbers
Least(S) == CHOOSE i \in S : \A j \in S : i <= j

\* The rest of the first marker line of s: what follows DATENERFASSUNG:, and
\* the blanks behind it, up to the end of the line; <<>> without a marker
MarkerLine(s) ==
    LET Rest(start) ==
            SubSeq(s, start, Least({j \in start..(Len(s) + 1) :
                                       j = Len(s) + 1 \/ s[j] = "\n"}) - 1)
        Line(markers) ==
            IF markers = {} THEN <<>> ELSE Rest(RunEnd(Blank, s, Least(markers) + 2))
    IN Line({i \in 1..(Len(s) - 1) : Lower(s[i]) = "datenerfassung" /\ s[i + 1] = ":"})

\* Where label=[value] stands in the line, with a value that is not empty
BracketedAt(line, label) ==
    {i \in 1..(Len(line) - 4) :
        /\ Lower(line[i]) = label /\ line[i + 1] = "=" /\ line[i + 2] = "["
        /\ line[i + 3] # "]"
        /\ \E j \in (i + 4)..Len(line) : line[j] = "]"}

\* The value between the brackets of the first label=[value] of the line
BracketedValue(line, label) ==
    LET Value(i) ==
            SubSeq(line, i + 3, Least({j \in (i + 4)..Len(line) : line[j] = "]"}) - 1)
    IN Value(Least(BracketedAt(line, label)))

\* Where label=letters stands in the line
LettersAt(line, label) ==
    {i \in 1..(Len(line) - 2) :
        Lower(line[i]) = label /\ line[i + 1] = "=" /\ Lower(line[i + 2]) \in Letter}

\* The letters behind the first label=letters of the line
LettersValue(line, label) ==
    LET Value(i) == SubSeq(line, i + 2, RunEnd(Letter, line, i + 2) - 1)
    IN Value(Least(LettersAt(line, label)))

\* The labels of the tag, by key of the record
TagLabels ==
    [name |-> "name", phone |-> "telefon", address |-> "adresse",
     appointment |-> "termin", type |-> "typ"]

\* The record of the keys present in the line with their bracketed values
\* trimmed; the value of Typ is bracketed too, or is the letters behind Typ=
TagRecord(line, bracketedTyp) ==
    LET InLetters(key) == key = "type" /\ ~bracketedTyp
        Present(key) ==
            IF InLetters(key) THEN LettersAt(line, TagLabels[key]) # {}
            ELSE BracketedAt(line, TagLabels[key]) # {}
    IN [key \in {k \in DOMAIN TagLabels : Present(k)} |->
           IF InLetters(key) THEN LettersValue(line, TagLabels[key])
           ELSE Trim(BracketedValue(line, TagLabels[key]))]

\* C25 (as stated): extractCustomerData returns null without a marker line or
\* when the line yields none of the keys, and otherwise exactly the keys
\* present as Key=[value], with the bracketed values trimmed.
StructuredBracketedKeys ==
    pc = "returned" /\ transcript.typeof = "string"
       => returned = TagRecord(MarkerLine(transcript.text), TRUE)

\* C25: extractCustomerData returns null without a marker line or when the
\* line yields none of the keys, and otherwise exactly the keys present: Name,
\* Telefon, Adresse and Termin as Key=[value] with the bracketed value
\* trimmed, Typ as Typ= followed by letters, which are its value; no value is
\* validated.
StructuredKeysPresent ==
    pc = "returned" /\ transcript.typeof = "string"
       => returned = TagRecord(MarkerLine(transcript.text), FALSE)

StructuredUnvalidated ==
    /\ pc = "returned"
    /\ "name" \in DOMAIN returned
    /\ ~isValidName(returned.name)
    /\ returned.name # BracketedValue(MarkerLine(transcript.text), "name")

-----------------------------------------------------------------------------
(* The merge pass and the type *)

\* The working result that enters the merge pass is the Natural strategy's,
\* or else the Advanced strategy's
FromNaturalLanguage == ~IsNoResult(naturalData) \/ ~IsNoResult(advancedData)

\* The type inferred from natural language: Natural's if it replaced the
\* working result, Advanced's otherwise
InferredType == IF ~IsNoResult(naturalData) THEN naturalData.type ELSE advancedData.type

\* C27: when the working result is the Advanced or the Natural strategy's, the
\* merge pass leaves type, confidence_score and extraction_details as they
\* were, and the type returned is the one inferred from natural language,
\* whatever Typ the structured tag gives.
MergeKeepsType ==
    (pc \in {"final", "done"} /\ Called("backup") /\ FromNaturalLanguage)
       => /\ \A key \in {"type", "confidence_score", "extraction_details"} :
                 extractedData[key] = preMerge[key]
          /\ extractedData.type = InferredType
          /\ pc = "done" => returned.type = InferredType

TagTypeIgnored ==
    /\ pc = "done" /\ Called("backup") /\ FromNaturalLanguage
    /\ "type" \in DOMAIN backupData
    /\ backupData.type # returned.type

-----------------------------------------------------------------------------
(* createOrUpdateCustomer (src/lib/businessLogic.js), called by concurrent *)
(* webhook deliveries                                                      *)

\* Number of webhook deliveries under way at once
MaxDeliveries == 2

\* The phone numbers the deliveries carry
Phones == {"05211234567", "0301234567"}

\* No extraction function is under way
ExtractionUnused ==
    /\ transcript = NoResult
    /\ pc = "store"
    /\ advancedData = NoResult
    /\ naturalData = NoResult
    /\ legacyData = NoResult
    /\ backupData = NoResult
    /\ extractedData = NoResult
    /\ preMerge = NoResult
    /\ calls = <<>>
    /\ returned = NoResult

\* Every delivery has called createOrUpdateCustomer(data, tenantProjectId,
\* supabase) with its phone, with or without an address, for the one tenant
InitCustomers ==
    /\ ExtractionUnused
    /\ kfz_customers = {}
    /\ tenant_projects = {}
    /\ TENANT_PROJECT_ID = Null
    /\ task \in [1..MaxDeliveries ->
                   [pc : {"select"}, phone : Phones, address : BOOLEAN,
                    existingCustomer : {NoResult}, customerNumber : {0}]]

\* .eq('phone', data.phone).eq('tenant_project_id', tenantProjectId)
CustomersOf(phone) == {row \in kfz_customers : row.phone = phone}

\* .single(): the row if exactly one row is selected, no data otherwise
Single(rows) == IF Cardinality(rows) = 1 THEN CHOOSE row \in rows : TRUE ELSE NoResult

\* Lines 129-134: the lookup by phone and tenant
SelectCustomer(d) ==
    /\ task[d].pc = "select"
    /\ \E existing \in {Single(CustomersOf(task[d].phone))} :
          task' = [task EXCEPT ![d].existingCustomer = existing,
                               ![d].pc = IF ~IsNoResult(existing) THEN "found"
                                         ELSE "number"]
    /\ UNCHANGED <<extraction, kfz_customers, tenant_projects, TENANT_PROJECT_ID>>

\* Lines 136-147: the customer exists; its address is filled in if it has none
ExistingCustomer(d) ==
    /\ task[d].pc = "found"
    /\ kfz_customers' =
           IF task[d].address /\ ~task[d].existingCustomer.street
           THEN {IF row.id = task[d].existingCustomer.id
                 THEN [row EXCEPT !.street = TRUE] ELSE row : row \in kfz_customers}
           ELSE kfz_customers
    /\ task' = [task EXCEPT ![d].pc = "returned"]
    /\ UNCHANGED <<extraction, tenant_projects, TENANT_PROJECT_ID>>

\* Line 149 and generateCustomerNumber (lines 24-32): count + 1
GenerateCustomerNumber(d) ==
    /\ task[d].pc = "number"
    /\ task' = [task EXCEPT ![d].customerNumber = Cardinality(kfz_customers) + 1,
                            ![d].pc = "insert"]
    /\ UNCHANGED <<extraction, kfz_customers, tenant_projects, TENANT_PROJECT_ID>>

\* Lines 151-171: the insert, and return of the new row
InsertCustomer(d) ==
    /\ task[d].pc = "insert"
    /\ kfz_customers' = kfz_customers \cup
           {[id |-> d, phone |-> task[d].phone, customer_number |-> task[d].customerNumber,
             street |-> task[d].address]}
    /\ task' = [task EXCEPT ![d].pc = "returned"]
    /\ UNCHANGED <<extraction, tenant_projects, TENANT_PROJECT_ID>>

\* Line 168: the insert comes back with an error, which is thrown.  The schema
\* of kfz_customers is not part of the repository: a row with the same phone
\* or the same customer number may or may not be refused.
InsertCustomerRefused(d) ==
    /\ task[d].pc = "insert"
    /\ \E row \in kfz_customers :
          row.phone = task[d].phone \/ row.customer_number = task[d].customerNumber
    /\ task' = [task EXCEPT ![d].pc = "thrown"]
    /\ UNCHANGED <<extraction, kfz_customers, tenant_projects, TENANT_PROJECT_ID>>

NextCustomers ==
    \E d \in 1..MaxDeliveries :
        \/ SelectCustomer(d) \/ ExistingCustomer(d) \/ GenerateCustomerNumber(d)
        \/ InsertCustomer(d) \/ InsertCustomerRefused(d)

SpecCustomers == InitCustomers /\ [][NextCustomers]_vars

\* C28: whatever the interleaving of the deliveries, kfz_customers holds at
\* most one row per phone of the tenant.
OneCustomerPerPhone ==
    \A phone \in Phones : Cardinality(CustomersOf(phone)) <= 1

-----------------------------------------------------------------------------
(* getTenantProjectIdEnhanced and initializeTenantProject                  *)
(* (src/unnamed/part_001, database-init.js), called concurrently           *)

\* Number of concurrent callers
MaxCallers == 3

\* gen_random_uuid(), for the row that caller c inserts
gen_random_uuid(c) == <<"uuid-" \o ToString(c)>>

\* Every caller has called one of the two functions; the cache is empty and
\* there is no tenant project
InitTenant ==
    /\ ExtractionUnused
    /\ kfz_customers = {}
    /\ tenant_projects = {}
    /\ TENANT_PROJECT_ID = Null
    /\ task \in [1..MaxCallers ->
                   {[called |-> fn, pc |-> fn, result |-> Undefined] :
                       fn \in {"getTenantProjectIdEnhanced", "initializeTenantProject"}}]

\* The caller goes on at next
Goto(c, next) == task' = [task EXCEPT ![c].pc = next]

\* return: the caller receives id
Receive(c, id) == task' = [task EXCEPT ![c].pc = "returned", ![c].result = id]

\* Line 69: the cache is looked at, then the query is sent
EnhancedEnter(c) ==
    /\ task[c].pc = "getTenantProjectIdEnhanced"
    /\ IF TENANT_PROJECT_ID # Null THEN Receive(c, TENANT_PROJECT_ID)
       ELSE Goto(c, "select")
    /\ UNCHANGED <<extraction, kfz_customers, tenant_projects, TENANT_PROJECT_ID>>

\* Lines 73-86 and line 8: the answer of the query; without a row,
\* initializeTenantProject is called, which looks at the cache first
EnhancedSelect(c) ==
    /\ task[c].pc = "select"
    /\ \E data \in {Single(tenant_projects)} :
          IF ~IsNoResult(data)
          THEN TENANT_PROJECT_ID' = data.id /\ Receive(c, data.id)
          ELSE /\ TENANT_PROJECT_ID' = TENANT_PROJECT_ID
               /\ IF TENANT_PROJECT_ID # Null THEN Receive(c, TENANT_PROJECT_ID)
                  ELSE Goto(c, "check")
    /\ UNCHANGED <<extraction, kfz_customers, tenant_projects>>

\* Lines 8-18: the cache is looked at, then the client connects
InitializeEnter(c) ==
    /\ task[c].pc = "initializeTenantProject"
    /\ IF TENANT_PROJECT_ID # Null THEN Receive(c, TENANT_PROJECT_ID)
       ELSE Goto(c, "check")
    /\ UNCHANGED <<extraction, kfz_customers, tenant_projects, TENANT_PROJECT_ID>>

\* Lines 20-29: check if the project exists; if it does, cache and return it
InitializeCheck(c) ==
    /\ task[c].pc = "check"
    /\ IF tenant_projects # {}
       THEN \E row \in tenant_projects :
               TENANT_PROJECT_ID' = row.id /\ Receive(c, row.id)
       ELSE TENANT_PROJECT_ID' = TENANT_PROJECT_ID /\ Goto(c, "insert")
    /\ UNCHANGED <<extraction, kfz_customers, tenant_projects>>

\* Lines 31-59: create the project, cache and return its id
InitializeInsert(c) ==
    /\ task[c].pc = "insert"
    /\ tenant_projects' = tenant_projects \cup {[id |-> gen_random_uuid(c)]}
    /\ TENANT_PROJECT_ID' = gen_random_uuid(c)
    /\ Receive(c, gen_random_uuid(c))
    /\ UNCHANGED <<extraction, kfz_customers>>

\* Lines 61-64: the insert fails and null is returned.  ON CONFLICT
\* (project_name) of database-permissions-fix.sql, line 71, tells of a
\* uniqueness constraint on project_name, which refuses a second row; the
\* schema itself is not part of the repository.
InitializeInsertRefused(c) ==
    /\ task[c].pc = "insert"
    /\ tenant_projects # {}
    /\ Receive(c, Null)
    /\ UNCHANGED <<extraction, kfz_customers, tenant_projects, TENANT_PROJECT_ID>>

NextTenant ==
    \E c \in 1..MaxCallers :
        \/ EnhancedEnter(c) \/ EnhancedSelect(c) \/ InitializeEnter(c)
        \/ InitializeCheck(c) \/ InitializeInsert(c) \/ InitializeInsertRefused(c)

SpecTenant == InitTenant /\ [][NextTenant]_vars

\* At most one tenant_projects row, and all callers that have returned have
\* received the same id
OneTenantProject ==
    /\ Cardinality(tenant_projects) <= 1
    /\ \A c1, c2 \in 1..MaxCallers :
          task[c1].pc = "returned" /\ task[c2].pc = "returned"
             => task[c1].result = task[c2].result /\ task[c1].result # Null

\* C29: under any interleaving of the callers, starting with an empty cache
\* and no tenant project, at most one tenant_projects row is inserted, every
\* caller receives the same id, and the cached id never changes once set.
TenantCreatedOnce ==
    /\ []OneTenantProject
    /\ [][TENANT_PROJECT_ID # Null => TENANT_PROJECT_ID' = TENANT_PROJECT_ID]_vars

-----------------------------------------------------------------------------
(* The monitored webhook handler (src/unnamed/part_002) and the wrapper    *)
(* monitorExtraction                                                       *)

\* extractCustomerDataIntelligent(transcript) as one call: threw tells that it
\* ended in an exception, data is the record returned
extractCustomerDataIntelligent(arg) ==
    LET Final4(data) == IF IsNoResult(data) THEN FallbackRecord(arg.text) ELSE data
        Merge(data, backup) ==
            IF ~IsNoResult(data) /\ ~IsNoResult(backup) THEN Merged(data, backup)
            ELSE data
        Method4Of(data) == Final4(Merge(data, extractCustomerData(arg.text)))
        Legacy(legacy) ==
            IF ~IsNoResult(legacy) THEN Tagged(legacy, Hundredths(80), "structured_format")
            ELSE NoResult
        Method3Of(data) ==
            IF IsNoResult(data) THEN Method4Of(Legacy(extractCustomerData(arg.text)))
            ELSE Method4Of(data)
        Natural(data, natural) ==
            IF ~IsNoResult(natural) THEN Tagged(natural, Hundredths(60), "standard_natural")
            ELSE data
        Method2Of(data) ==
            IF NeedsNatural(data)
            THEN Method3Of(Natural(data, extractCustomerDataNatural(arg.text)))
            ELSE Method3Of(data)
        Method1Of(result) ==
            IF result.threw THEN [threw |-> TRUE, data |-> NoResult]
            ELSE [threw |-> FALSE, data |-> Method2Of(result.data)]
    IN IF Invalid(arg) THEN [threw |-> FALSE, data |-> InvalidRecord]
       ELSE Method1Of(extractCustomerDataAdvanced(arg.text))

\* A webhook delivery arrives with its transcript; the tenant project exists
\* or not
InitWebhook ==
    /\ transcript \in Arguments
    /\ pc = "webhook_received"
    /\ advancedData = NoResult
    /\ naturalData = NoResult
    /\ legacyData = NoResult
    /\ backupData = NoResult
    /\ extractedData = NoResult
    /\ preMerge = NoResult
    /\ calls = <<>>
    /\ returned = NoResult
    /\ kfz_customers = {}
    /\ tenant_projects \in {{}, {[id |-> gen_random_uuid(0)]}}
    /\ TENANT_PROJECT_ID = Null
    /\ task = <<>>

\* Lines 280-301, and getTenantProjectId of businessLogic.js: without a
\* tenant project the handler throws and answers 500
TenantLookup ==
    /\ pc = "webhook_received"
    /\ pc' = IF IsNoResult(Single(tenant_projects)) THEN "error" ELSE "extraction_start"
    /\ UNCHANGED <<store, transcript, advancedData, naturalData, legacyData, backupData,
                   extractedData, preMerge, calls, returned>>

\* Lines 303-309, and lines 696-701 of monitorExtraction: the wrapper is an
\* async function; it runs the extraction up to its await and hands a pending
\* promise back, with which let extractedData is initialised
StartExtraction ==
    /\ pc = "extraction_start"
    /\ task' = <<[called |-> "monitoredExtraction", pc |-> "await",
                  result |-> extractCustomerDataIntelligent(transcript)]>>
    /\ extractedData' = [promise |-> "pending"]
    /\ pc' = "extraction_complete"
    /\ UNCHANGED <<kfz_customers, tenant_projects, TENANT_PROJECT_ID, transcript,
                   advancedData, naturalData, legacyData, backupData, preMerge, calls,
                   returned>>

\* Line 312: extractedData && extractedData.name && extractedData.phone
HasNameAndPhone(data) ==
    ~IsNoResult(data) /\ ~Falsy(Get(data, "name")) /\ ~Falsy(Get(data, "phone"))

\* Lines 312-319 and 431-454: the branch, up to its first await
ProcessExtractedData ==
    /\ pc = "extraction_complete"
    /\ IF HasNameAndPhone(extractedData)
       THEN pc' = "customer_processing_start"
            /\ calls' = Append(calls, "createOrUpdateCustomer")
       ELSE pc' = "fallback_handling" /\ calls' = Append(calls, "requires_manual_review")
    /\ UNCHANGED <<store, transcript, advancedData, naturalData, legacyData, backupData,
                   extractedData, preMerge, returned>>

\* Lines 701-721 of monitorExtraction: the wrapper goes on behind its await
\* once the handler waits, and settles the promise
SettleExtraction ==
    /\ pc \in {"customer_processing_start", "fallback_handling", "responded"}
    /\ task # <<>> /\ task[1].pc = "await"
    /\ task' = [task EXCEPT ![1].pc = "settled"]
    /\ extractedData' = [promise |-> IF task[1].result.threw THEN "rejected"
                                     ELSE "fulfilled"]
    /\ returned' = task[1].result.data
    /\ UNCHANGED <<kfz_customers, tenant_projects, TENANT_PROJECT_ID, transcript, pc,
                   advancedData, naturalData, legacyData, backupData, preMerge, calls>>

\* Lines 319-429 and 456-470: the rest of the branch, and the response
Respond ==
    /\ pc \in {"customer_processing_start", "fallback_handling"}
    /\ calls' = IF pc = "customer_processing_start"
                THEN calls \o <<"createProject", "saveCallRecord">> ELSE calls
    /\ pc' = "responded"
    /\ UNCHANGED <<store, transcript, advancedData, naturalData, legacyData, backupData,
                   extractedData, preMerge, returned>>

NextWebhook ==
    TenantLookup \/ StartExtraction \/ ProcessExtractedData \/ SettleExtraction \/ Respond

SpecWebhook == InitWebhook /\ [][NextWebhook]_vars

\* C30: once the handler has taken its branch for a transcript whose
\* extraction yields a record with name and phone, the value it inspected is
\* that record, it has called createOrUpdateCustomer and not logged the
\* call for manual review, and when it responds it has called createProject
\* and saveCallRecord too.
CustomerBranchTaken ==
    (/\ pc \in {"customer_processing_start", "fallback_handling", "responded"}
     /\ ~task[1].result.threw
     /\ HasNameAndPhone(task[1].result.data))
       => /\ extractedData = task[1].result.data
          /\ Called("createOrUpdateCustomer")
          /\ ~Called("requires_manual_review")
          /\ pc = "responded" => Called("createProject") /\ Called("saveCallRecord")

====
